---- MODULE Spec2Model ----
(***************************************************************************)
(* Komi Reader Hub: the directory scanner of the Electron main process,    *)
(* the file-backed comic store of the renderer (EnhancedFileStorage), the  *)
(* folder rename used by title edits, the refresh merge of the library     *)
(* page and the usage-checked deletion of the genre catalog.               *)
(*                                                                         *)
(* Strings the code inspects character by character (folder names, file    *)
(* names, titles, paths) are sequences of one-character strings.           *)
(***************************************************************************)
EXTENDS Integers, Sequences, FiniteSets, TLC

VARIABLES
  fsys,        \* the comics directory tree on disk
  mem,         \* the fields of the fileStorage singleton
  disk,        \* the files of the json folder
  comicList,   \* the comics the library and the edit form show
  gm,          \* the state of the GenreManager component
  lastSaved,   \* per comic id, the comic of the last saveComic that returned true
  scanHistory, \* the results of the last two scans since the tree last changed
  steps,       \* how many operations of the library have run
  op,          \* the operation that produced the current state
  args,        \* its arguments and the outcomes of its system calls
  ret,         \* what it returned
  hook,        \* one useAutoRefreshMetadata instance, its timers and its calls in flight
  refreshes,   \* the handleRefresh calls in flight, and the order they finished in
  boot,        \* initializeStorage of the singleton: its position, dataPath, what loadData has read
  updates,     \* the settings updates of the UI in flight, and the values written per key
  reader       \* the comic the reader shows and its page

vars == <<fsys, mem, disk, comicList, gm, lastSaved, scanHistory, steps, op, args, ret,
          hook, refreshes, boot, updates, reader>>

(***************************************************************************)
(* Bounds of the model.                                                    *)
(***************************************************************************)
MaxFolders == 2
MaxWriteFailures == 1
MaxSteps == 3

(***************************************************************************)
(* Characters.                                                             *)
(***************************************************************************)
Ascii ==
  <<" ", "!", "dquote", "#", "$", "%", "&", "'", "(", ")", "*", "+", ",", "-", ".", "/",
    "0", "1", "2", "3", "4", "5", "6", "7", "8", "9", ":", ";", "<", "=", ">", "?",
    "@", "A", "B", "C", "D", "E", "F", "G", "H", "I", "J", "K", "L", "M", "N", "O",
    "P", "Q", "R", "S", "T", "U", "V", "W", "X", "Y", "Z", "[", "bslash", "]", "^", "_",
    "btick", "a", "b", "c", "d", "e", "f", "g", "h", "i", "j", "k", "l", "m", "n", "o",
    "p", "q", "r", "s", "t", "u", "v", "w", "x", "y", "z", "{", "|", "}", "~">>

\* (the double quote and the backslash and the backtick are spelled
\* out: "dquote", "bslash", "btick")
\* the UTF-16 code unit of a character
CharCode(c) == 31 + (CHOOSE i \in 1..Len(Ascii) : Ascii[i] = c)

\* String.prototype.toLowerCase, one character
LowerChar(c) ==
  LET k == CharCode(c) IN IF k >= 65 /\ k <= 90 THEN Ascii[k + 32 - 31] ELSE c

ToLowerCase(s) == [i \in 1..Len(s) |-> LowerChar(s[i])]

\* the comparison of Array.prototype.sort() without a comparator: by code units
RECURSIVE StrLess(_, _)
StrLess(s, t) ==
  IF t = <<>> THEN FALSE
  ELSE IF s = <<>> THEN TRUE
  ELSE IF CharCode(Head(s)) # CharCode(Head(t)) THEN CharCode(Head(s)) < CharCode(Head(t))
  ELSE StrLess(Tail(s), Tail(t))

RECURSIVE InsertSorted(_, _)
InsertSorted(x, sorted) ==
  IF sorted = <<>> THEN <<x>>
  ELSE IF StrLess(x, Head(sorted)) THEN <<x>> \o sorted
  ELSE <<Head(sorted)>> \o InsertSorted(x, Tail(sorted))

RECURSIVE SortNames(_)
SortNames(names) ==
  IF names = <<>> THEN <<>> ELSE InsertSorted(Head(names), SortNames(Tail(names)))

EndsWith(s, suffix) ==
  /\ Len(s) >= Len(suffix)
  /\ SubSeq(s, Len(s) - Len(suffix) + 1, Len(s)) = suffix

StartsWith(s, prefix) ==
  /\ Len(s) >= Len(prefix)
  /\ SubSeq(s, 1, Len(prefix)) = prefix

Min(a, b) == IF a < b THEN a ELSE b

\* the index of the last "/" of a path, 0 when it has none (lastIndexOf('/'))
LastSlash(p) ==
  IF \E i \in 1..Len(p) : p[i] = "/"
  THEN CHOOSE i \in 1..Len(p) : p[i] = "/" /\ \A j \in (i + 1)..Len(p) : p[j] # "/"
  ELSE 0

\* path.basename, path.dirname
Basename(p) == SubSeq(p, LastSlash(p) + 1, Len(p))
Dirname(p) == SubSeq(p, 1, LastSlash(p) - 1)

(***************************************************************************)
(* The directory tree.  Folder 0 is the scanned root; every other folder   *)
(* has a parent with a smaller number, a name, the names of the files      *)
(* directly inside it in readdir order, and may be unreadable.  readdir    *)
(* lists the subfolders of a folder in the order of their numbers.         *)
(***************************************************************************)
RootPaths == { <<"/", "L">>, <<"/", "L", "i", "b", "r", "a">> }

FolderNames ==
  { <<"a">>, <<"A">>, <<"a", " ", "b">>, <<".", "h">>,
    <<"_", "_", "M", "A", "C", "O", "S", "X">> }

aJpg == <<"a", ".", "j", "p", "g">>
BJpg == <<"B", ".", "j", "p", "g">>
cPNG == <<"c", ".", "P", "N", "G">>
nTxt == <<"n", ".", "t", "x", "t">>

FileLists == { <<>>, <<nTxt>>, <<aJpg, BJpg>>, <<cPNG, nTxt, aJpg>> }

Folders(t) == DOMAIN t.dirs

RECURSIVE FullPath(_, _)
FullPath(t, n) ==
  IF n = 0 THEN t.root
  ELSE FullPath(t, t.dirs[n].parent) \o <<"/">> \o t.dirs[n].name

RECURSIVE FolderLevel(_, _)
FolderLevel(t, n) == IF n = 0 THEN 0 ELSE 1 + FolderLevel(t, t.dirs[n].parent)

\* the subfolders of folder n, as readdir lists them
RECURSIVE ChildrenFrom(_, _, _)
ChildrenFrom(t, n, k) ==
  IF k \notin Folders(t) THEN <<>>
  ELSE (IF k # 0 /\ t.dirs[k].parent = n THEN <<k>> ELSE <<>>) \o ChildrenFrom(t, n, k + 1)

Children(t, n) == ChildrenFrom(t, n, 1)

SiblingNamesDistinct(t) ==
  \A m, n \in Folders(t) \ {0} :
    (m # n /\ t.dirs[m].parent = t.dirs[n].parent) => t.dirs[m].name # t.dirs[n].name

SmallTrees ==
  { t \in
      { [root |-> r,
         dirs |-> [n \in 0..MaxFolders |->
                    [parent |-> IF n = 0 THEN 0 ELSE par[n],
                     name |-> IF n = 0 THEN <<>> ELSE nm[n],
                     files |-> fl[n],
                     readable |-> n # u,
                     mtime |-> n]]] :
          r \in RootPaths,
          par \in { f \in [1..MaxFolders -> 0..MaxFolders] : \A n \in 1..MaxFolders : f[n] < n },
          nm \in [1..MaxFolders -> FolderNames],
          fl \in [0..MaxFolders -> FileLists],
          u \in 0..(MaxFolders + 1) } :
      SiblingNamesDistinct(t) }

(***************************************************************************)
(* The scanner: ipcMain.handle('read-directory') of the main process.      *)
(***************************************************************************)
maxDepth == 10

ImageExtensions ==
  { <<"j", "p", "g">>, <<"j", "p", "e", "g">>, <<"p", "n", "g">>,
    <<"w", "e", "b", "p">>, <<"g", "i", "f">> }

\* /\.(jpg|jpeg|png|webp|gif)$/i.test(name)
IsImageFile(name) ==
  \E e \in ImageExtensions : EndsWith(ToLowerCase(name), <<".">> \o e)

\* !dirent.name.startsWith('.') && dirent.name !== '__MACOSX'
IsVisible(name) ==
  /\ ~StartsWith(name, <<".">>)
  /\ name # <<"_", "_", "M", "A", "C", "O", "S", "X">>

IsWhitespace(c) == c = " "

\* name.replace(/\s+/g, '-')
RECURSIVE DashWhitespace(_)
DashWhitespace(s) ==
  IF s = <<>> THEN <<>>
  ELSE IF IsWhitespace(Head(s))
       THEN IF Len(s) > 1 /\ IsWhitespace(s[2])
            THEN DashWhitespace(Tail(s))
            ELSE <<"-">> \o DashWhitespace(Tail(s))
       ELSE <<Head(s)>> \o DashWhitespace(Tail(s))

\* Buffer.from(fullPath).toString('base64').substring(0, 8): eight base64
\* characters encode the first six bytes of the path and nothing else
Base64Chars == 8
PathHash(path) == SubSeq(path, 1, Min((Base64Chars \div 4) * 3, Len(path)))

\* name.toLowerCase().replace(/\s+/g, '-') + '-' + depth + '-' + hash
ComicId(name, depth, fullPath) ==
  [name |-> DashWhitespace(ToLowerCase(name)), depth |-> depth, hash |-> PathHash(fullPath)]

FileUrl(path) == <<"file://">> \o path

\* the image files in directory order, as they are before the sort
UnsortedImageFiles(files) == SelectSeq(files, IsImageFile)

\* files.filter(file => /\.(jpg|jpeg|png|webp|gif)$/i.test(file)).sort()
ImageFilesOf(files) == SortNames(SelectSeq(files, IsImageFile))

\* path.relative(directoryPath, fullPath)
RelativePath(directoryPath, fullPath) ==
  SubSeq(fullPath, Len(directoryPath) + 2, Len(fullPath))

ComicFolderRecord(t, directoryPath, c, depth) ==
  LET fullPath == FullPath(t, c)
      imageFiles == ImageFilesOf(t.dirs[c].files)
  IN [id |-> ComicId(t.dirs[c].name, depth, fullPath),
      title |-> t.dirs[c].name,
      displayTitle |-> RelativePath(directoryPath, fullPath),
      folderPath |-> fullPath,
      coverImage |-> FileUrl(fullPath \o <<"/">> \o imageFiles[1]),
      totalPages |-> Len(imageFiles),
      pages |-> [i \in 1..Len(imageFiles) |-> FileUrl(fullPath \o <<"/">> \o imageFiles[i])],
      lastModified |-> t.dirs[c].mtime,
      author |-> Basename(Dirname(fullPath)),
      depth |-> depth]

RECURSIVE scanForComics(_, _, _, _)
RECURSIVE ScanEntries(_, _, _, _)
\* the body of the for loop over the directory entries
ScanEntries(t, directoryPath, entries, depth) ==
  IF entries = <<>> THEN <<>>
  ELSE
    LET c == Head(entries)
        found ==
          IF ~IsVisible(t.dirs[c].name) THEN <<>>
          ELSE IF ~t.dirs[c].readable THEN <<>>
          ELSE IF Len(ImageFilesOf(t.dirs[c].files)) > 0
               THEN <<ComicFolderRecord(t, directoryPath, c, depth)>>
               ELSE scanForComics(t, directoryPath, c, depth + 1)
    IN found \o ScanEntries(t, directoryPath, Tail(entries), depth)

\* a scan that looks at the folders directly below the root only
ScanTopLevelOnly(t, directoryPath, n, depth) ==
  IF depth > 0 THEN <<>>
  ELSE IF ~t.dirs[n].readable THEN <<>>
  ELSE ScanEntries(t, directoryPath, Children(t, n), depth)

\* a scan without the check of the depth
ScanUnbounded(t, directoryPath, n, depth) ==
  IF ~t.dirs[n].readable THEN <<>>
  ELSE ScanEntries(t, directoryPath, Children(t, n), depth)

scanForComics(t, directoryPath, n, depth) ==
  IF depth > maxDepth THEN <<>>
  ELSE IF ~t.dirs[n].readable THEN <<>>
  ELSE ScanEntries(t, directoryPath, Children(t, n), depth)

ReadDirectoryResult(t) ==
  LET comics == scanForComics(t, t.root, 0, 0)
  IN [comics |-> comics, totalComics |-> Len(comics), errors |-> <<>>]

\* an operation without arguments, or one that returns nothing
Nothing == [nothing |-> TRUE]

NoScan == [comics |-> <<>>, totalComics |-> 0, errors |-> <<>>]

(***************************************************************************)
(* Renaming a folder: ipcMain.handle('rename-folder') and                  *)
(* EnhancedFileStorage.renameComicFolder.                                  *)
(***************************************************************************)
StripTrailingSlash(p) ==
  IF Len(p) > 1 /\ p[Len(p)] = "/" THEN SubSeq(p, 1, Len(p) - 1) ELSE p

IsFolderPath(t, p) == \E n \in Folders(t) : FullPath(t, n) = StripTrailingSlash(p)

FolderAt(t, p) == CHOOSE n \in Folders(t) : FullPath(t, n) = StripTrailingSlash(p)

IsFilePath(t, p) ==
  \E n \in Folders(t) : \E i \in 1..Len(t.dirs[n].files) :
    FullPath(t, n) \o <<"/">> \o t.dirs[n].files[i] = p

\* fs.existsSync
ExistsSync(t, p) == IsFolderPath(t, p) \/ IsFilePath(t, p)

\* fs.renameSync of a folder; osOk is whether the operating system lets it happen
RenameSync(t, oldPath, newPath, osOk) ==
  IF osOk /\ IsFolderPath(t, oldPath) /\ IsFolderPath(t, Dirname(newPath))
          /\ ~StartsWith(newPath, oldPath \o <<"/">>)
  THEN [threw |-> FALSE,
        tree |-> [t EXCEPT !.dirs[FolderAt(t, oldPath)] =
                    [@ EXCEPT !.parent = FolderAt(t, Dirname(newPath)),
                              !.name = Basename(newPath)]]]
  ELSE [threw |-> TRUE, tree |-> t]

\* a rename that does not look whether the new path is taken
RenameOntoExisting(t, oldPath, newPath, osOk) ==
  IF ~ExistsSync(t, oldPath) THEN [ok |-> FALSE, tree |-> t]
  ELSE LET r == RenameSync(t, oldPath, newPath, osOk)
       IN [ok |-> ~r.threw, tree |-> r.tree]

\* ipcMain.handle('rename-folder'): the result and the tree afterwards
RenameFolderHandler(t, oldPath, newPath, osOk) ==
  IF ~ExistsSync(t, oldPath) THEN [ok |-> FALSE, tree |-> t]
  ELSE IF ExistsSync(t, newPath) THEN [ok |-> FALSE, tree |-> t]
  ELSE LET r == RenameSync(t, oldPath, newPath, osOk)
       IN [ok |-> ~r.threw, tree |-> r.tree]

InvalidTitleChars == { "<", ">", ":", "dquote", "/", "bslash", "|", "?", "*" }

RECURSIVE CollapseSpaces(_)
CollapseSpaces(s) ==
  IF s = <<>> THEN <<>>
  ELSE IF IsWhitespace(Head(s))
       THEN IF Len(s) > 1 /\ IsWhitespace(s[2])
            THEN CollapseSpaces(Tail(s))
            ELSE <<" ">> \o CollapseSpaces(Tail(s))
       ELSE <<Head(s)>> \o CollapseSpaces(Tail(s))

RECURSIVE TrimLeft(_)
TrimLeft(s) == IF s # <<>> /\ IsWhitespace(Head(s)) THEN TrimLeft(Tail(s)) ELSE s

RECURSIVE TrimRight(_)
TrimRight(s) ==
  IF s # <<>> /\ IsWhitespace(s[Len(s)]) THEN TrimRight(SubSeq(s, 1, Len(s) - 1)) ELSE s

Trim(s) == TrimRight(TrimLeft(s))

\* title.replace(/[<>:"/\\|?*]/g, '_').replace(/\s+/g, ' ').trim()
sanitizeTitle(title) ==
  Trim(CollapseSpaces([i \in 1..Len(title) |->
                         IF title[i] \in InvalidTitleChars THEN "_" ELSE title[i]]))

\* the path renameComicFolder asks the main process to rename to
RenameTarget(newTitle, oldPath) ==
  SubSeq(oldPath, 1, LastSlash(oldPath) - 1) \o <<"/">> \o sanitizeTitle(newTitle)

\* renameComicFolder: the path returned (<<>> for null) and the tree afterwards
NullPath == <<>>

renameComicFolder(t, oldTitle, newTitle, oldPath, osOk) ==
  IF sanitizeTitle(oldTitle) = sanitizeTitle(newTitle)
  THEN [path |-> oldPath, tree |-> t]
  ELSE LET newPath == RenameTarget(newTitle, oldPath)
           r == RenameFolderHandler(t, oldPath, newPath, osOk)
       IN IF r.ok THEN [path |-> newPath, tree |-> r.tree]
          ELSE [path |-> NullPath, tree |-> r.tree]

(***************************************************************************)
(* JSON values.  A string field is a sequence of characters; Undefined     *)
(* stands for a value that is undefined or a key that is absent (a         *)
(* property read gives undefined in both cases).  A Date is told apart     *)
(* from the ISO string JSON.stringify turns it into.                       *)
(***************************************************************************)
Undefined == <<"undefined">>
UndefinedGenres == [undefined |-> TRUE]
NullComic == [null |-> TRUE]
\* the content of a file that is not JSON
CorruptFile == [corrupt |-> TRUE]
IsNull(x) == "null" \in DOMAIN x

DateOf(t) == [type |-> "Date", time |-> t]
IsoStringOf(t) == [type |-> "string", time |-> t]

\* x || y picks y exactly when x is falsy: undefined or the empty string
Falsy(x) == x = Undefined \/ x = <<>>
OrElse(x, y) == IF Falsy(x) THEN y ELSE x

\* JSON.parse(JSON.stringify(comic)): what 'write-file' stores and 'read-file' returns
JsonOfComic(comic) ==
  [comic EXCEPT !.lastRead = IF @.type = "Date" THEN IsoStringOf(@.time) ELSE @]

EmptyMap == [k \in {} |-> k]

Put(map, key, value) == [k \in DOMAIN map \cup {key} |-> IF k = key THEN value ELSE map[k]]
Remove(map, key) == [k \in DOMAIN map \ {key} |-> map[k]]

(***************************************************************************)
(* EnhancedFileStorage.  s.mem are the fields of the singleton, s.disk the *)
(* files under the json folder: one file per comic id, the library index,  *)
(* genres, settings and reading progress.  Every writeFile either stores   *)
(* the whole document and returns true, or fails and returns false.        *)
(* The ISO timestamps of the index (lastModified, lastScan) are left out.  *)
(***************************************************************************)
\* libraryIndex.comics is a JS object: its keys keep their insertion order
EmptyEntries == [keys |-> <<>>, at |-> EmptyMap]

EntryPut(entries, id, entry) ==
  [keys |-> IF id \in DOMAIN entries.at THEN entries.keys ELSE Append(entries.keys, id),
   at |-> Put(entries.at, id, entry)]

EntryRemove(entries, id) ==
  LET Keep(k) == k # id
  IN [keys |-> SelectSeq(entries.keys, Keep), at |-> Remove(entries.at, id)]

EmptyIndex == [comics |-> EmptyEntries, totalComics |-> 0]
EmptyGenres == [personality |-> Undefined, verb |-> Undefined, plot |-> Undefined]
EmptySettings == [mainDirectory |-> Undefined, displayMode |-> Undefined, readerMode |-> Undefined]

EmptyMem ==
  [libraryIndex |-> EmptyIndex, genres |-> EmptyGenres,
   settings |-> EmptySettings, readingProgress |-> EmptyMap]

\* the files ensureDataFiles creates, and no comic file
EmptyDisk ==
  [comics |-> EmptyMap, index |-> EmptyIndex, genres |-> EmptyGenres,
   settings |-> EmptySettings, readingProgress |-> EmptyMap]

\* loadData of a new instance: every in-memory document is read from its file
loadData(s) ==
  [s EXCEPT !.mem = [libraryIndex |-> s.disk.index, genres |-> s.disk.genres,
                     settings |-> s.disk.settings,
                     readingProgress |-> s.disk.readingProgress]]

\* a getComic that looks the id up in the index before it reads the file
getComicOfIndex(s, comicId) ==
  IF comicId \in DOMAIN s.mem.libraryIndex.comics.at /\ comicId \in DOMAIN s.disk.comics
  THEN s.disk.comics[comicId] ELSE NullComic

\* readFile gives null for a file that is missing or that JSON.parse rejects
getComic(s, comicId) ==
  IF comicId \in DOMAIN s.disk.comics /\ s.disk.comics[comicId] # CorruptFile
  THEN s.disk.comics[comicId] ELSE NullComic

\* a saveComic that updates and writes the index before it writes the comic file
saveComicIndexFirst(s, comic, itemOk, indexOk) ==
  LET index == [s.mem.libraryIndex EXCEPT
                  !.comics = EntryPut(@, comic.id,
                                      [title |-> comic.title,
                                       folderPath |-> comic.folderPath])]
  IN [mem |-> [s.mem EXCEPT !.libraryIndex = index],
      disk |-> [s.disk EXCEPT !.comics = IF itemOk THEN Put(@, comic.id, JsonOfComic(comic))
                                         ELSE @,
                              !.index = IF indexOk THEN index ELSE @],
      ret |-> itemOk]

\* saveComic with the outcomes of its two writes: the new state and the result
saveComic(s, comic, itemOk, indexOk) ==
  IF itemOk
  THEN LET index == [s.mem.libraryIndex EXCEPT
                       !.comics = EntryPut(@, comic.id,
                                           [title |-> comic.title,
                                            folderPath |-> comic.folderPath])]
       IN [mem |-> [s.mem EXCEPT !.libraryIndex = index],
           disk |-> [s.disk EXCEPT !.comics = Put(@, comic.id, JsonOfComic(comic)),
                                   !.index = IF indexOk THEN index ELSE @],
           ret |-> TRUE]
  ELSE [mem |-> s.mem, disk |-> s.disk, ret |-> FALSE]

deleteComic(s, comicId, indexOk) ==
  LET index == [s.mem.libraryIndex EXCEPT !.comics = EntryRemove(@, comicId)]
  IN [mem |-> [s.mem EXCEPT !.libraryIndex = index],
      disk |-> [s.disk EXCEPT !.index = IF indexOk THEN index ELSE @],
      ret |-> TRUE]

\* the for loop of saveComics; oks[2i-1], oks[2i] are the write outcomes of comic i
\* and saved collects the comics whose saveComic returned true
RECURSIVE SaveEach(_, _, _, _)
SaveEach(s, comics, oks, i) ==
  IF i > Len(comics) THEN [mem |-> s.mem, disk |-> s.disk, saved |-> <<>>]
  ELSE LET one == saveComic(s, comics[i], oks[2 * i - 1], oks[2 * i])
           rest == SaveEach(one, comics, oks, i + 1)
       IN [rest EXCEPT !.saved = (IF one.ret THEN <<comics[i]>> ELSE <<>>) \o @]

saveComics(s, comics, oks) ==
  LET each == SaveEach(s, comics, oks, 1)
      index == [each.mem.libraryIndex EXCEPT !.totalComics = Len(comics)]
  IN [mem |-> [each.mem EXCEPT !.libraryIndex = index],
      disk |-> [each.disk EXCEPT !.index = IF oks[2 * Len(comics) + 1] THEN index ELSE @],
      saved |-> each.saved,
      ret |-> TRUE]

RECURSIVE ComicsOf(_, _)
ComicsOf(s, ids) ==
  IF ids = <<>> THEN <<>>
  ELSE (IF IsNull(getComic(s, Head(ids))) THEN <<>> ELSE <<getComic(s, Head(ids))>>)
       \o ComicsOf(s, Tail(ids))

\* a getAllComics that gives up at the first comic file it cannot read
getAllComicsOrNone(s) ==
  IF \E i \in 1..Len(s.mem.libraryIndex.comics.keys) :
       IsNull(getComic(s, s.mem.libraryIndex.comics.keys[i]))
  THEN <<>> ELSE ComicsOf(s, s.mem.libraryIndex.comics.keys)

\* getAllComics: the readable comic files of the index keys, in key order
getAllComics(s) == ComicsOf(s, s.mem.libraryIndex.comics.keys)

\* oks: the outcomes of the four writes
clearAllData(s, oks) ==
  [mem |-> EmptyMem,
   disk |-> [s.disk EXCEPT !.index = IF oks[1] THEN EmptyIndex ELSE @,
                           !.genres = IF oks[2] THEN EmptyGenres ELSE @,
                           !.settings = IF oks[3] THEN EmptySettings ELSE @,
                           !.readingProgress = IF oks[4] THEN EmptyMap ELSE @]]

setGenres(s, genres, ok) ==
  [mem |-> [s.mem EXCEPT !.genres = genres],
   disk |-> [s.disk EXCEPT !.genres = IF ok THEN genres ELSE @]]

setSettings(s, settings, ok) ==
  [mem |-> [s.mem EXCEPT !.settings = settings],
   disk |-> [s.disk EXCEPT !.settings = IF ok THEN settings ELSE @]]

(***************************************************************************)
(* GenreManager: the genre catalog component.  g is its React state.       *)
(***************************************************************************)
GenreCategories == { "personality", "verb", "plot" }
ComicGenreTiers == { "protagonist", "antagonist", "supporting", "narrative" }

EmptyCatalog == [personality |-> <<>>, verb |-> <<>>, plot |-> <<>>]
\* no selection (null)
NoGenre == [category |-> "personality", index |-> 0, value |-> <<>>]

InitialGenreManager ==
  [genres |-> EmptyCatalog, selectedGenre |-> NoGenre, genreToDelete |-> NoGenre,
   showDeleteAlert |-> FALSE, affectedComics |-> <<>>]

\* the mount effect: the catalog of storage when it has all three categories
LoadGenres(g, s) ==
  [g EXCEPT !.genres =
     IF \A c \in GenreCategories : s.mem.genres[c] # Undefined
     THEN s.mem.genres ELSE EmptyCatalog]

Includes(list, value) == \E i \in 1..Len(list) : list[i] = value

RemoveAt(list, index) ==
  [i \in 1..(Len(list) - 1) |-> IF i < index THEN list[i] ELSE list[i + 1]]

\* Object.values(comic.comicGenres).some(list => Array.isArray(list) && list.includes(value))
HasGenre(comic, value) ==
  /\ comic.comicGenres # UndefinedGenres
  /\ \E tier \in ComicGenreTiers : Includes(comic.comicGenres[tier], value)

\* a list of the affected comics that keeps every comic holding the value
RECURSIVE EveryAffected(_, _, _)
EveryAffected(comics, value, seen) ==
  IF comics = <<>> THEN <<>>
  ELSE LET comic == Head(comics)
       IN IF HasGenre(comic, value)
          THEN <<[id |-> comic.id, title |-> comic.title, folderPath |-> comic.folderPath]>>
               \o EveryAffected(Tail(comics), value, seen)
          ELSE EveryAffected(Tail(comics), value, seen)

\* the Map keyed by comic.folderPath || comic.title: the first comic of a key stays
RECURSIVE UniqueAffected(_, _, _)
UniqueAffected(comics, value, seen) ==
  IF comics = <<>> THEN <<>>
  ELSE LET comic == Head(comics)
           key == OrElse(comic.folderPath, comic.title)
       IN IF HasGenre(comic, value) /\ key \notin seen
          THEN <<[id |-> comic.id, title |-> comic.title, folderPath |-> comic.folderPath]>>
               \o UniqueAffected(Tail(comics), value, seen \cup {key})
          ELSE UniqueAffected(Tail(comics), value, seen)

\* saveGenres: storage first, then the component state
saveGenres(g, s, newGenres, ok) ==
  [g |-> [g EXCEPT !.genres = newGenres], s |-> setGenres(s, newGenres, ok)]

\* addGenre with newGenre = {category, value}, value.trim() not empty
addGenre(g, s, category, value, ok) ==
  saveGenres(g, s, [g.genres EXCEPT ![category] = Append(@, Trim(value))], ok)

\* saveEdit with editingGenre = {category, index, value}, value.trim() not
\* empty: the value at the index is replaced, the selection is dropped
saveEdit(g, s, category, index, value, ok) ==
  LET saved == saveGenres(g, s, [g.genres EXCEPT ![category][index] = Trim(value)], ok)
  IN [saved EXCEPT !.g.selectedGenre = NoGenre]

\* handleGenreSelect(category, index, value): a second click deselects
handleGenreSelect(g, category, index, value) ==
  IF g.selectedGenre # NoGenre /\ g.selectedGenre.category = category
       /\ g.selectedGenre.index = index
  THEN [g EXCEPT !.selectedGenre = NoGenre]
  ELSE [g EXCEPT !.selectedGenre = [category |-> category, index |-> index, value |-> value]]

\* checkGenreUsage(category, index, value), as deleteGenre calls it
checkGenreUsage(g, s, category, index, value, ok) ==
  LET affected == UniqueAffected(getAllComics(s), value, {})
  IN IF Len(affected) = 0
     THEN LET saved == saveGenres(g, s, [g.genres EXCEPT ![category] = RemoveAt(@, index)], ok)
          IN [g |-> [saved.g EXCEPT !.affectedComics = affected, !.selectedGenre = NoGenre],
              s |-> saved.s]
     ELSE [g |-> [g EXCEPT !.affectedComics = affected,
                           !.genreToDelete = [category |-> category, index |-> index,
                                              value |-> value],
                           !.showDeleteAlert = TRUE],
           s |-> s]

(***************************************************************************)
(* ComicsLibrary (merge of a scan with the saved metadata, refresh) and    *)
(* ComicCard (the edit form).                                              *)
(***************************************************************************)
Unknown == <<"U", "n", "k", "n", "o", "w", "n">>
Placeholder == <<"/", "placeholder.svg">>

EmptyComicGenres ==
  [protagonist |-> <<>>, antagonist |-> <<>>, supporting |-> <<>>, narrative |-> <<>>]

\* a conversion that takes every field from the scan
convertWithoutMetadata(s, comicFolder) ==
  [id |-> comicFolder.id,
   title |-> comicFolder.title,
   author |-> Unknown,
   genre |-> Undefined,
   comicGenres |-> UndefinedGenres,
   description |-> Undefined,
   genres |-> <<>>,
   coverImage |-> OrElse(comicFolder.coverImage, Placeholder),
   totalPages |-> comicFolder.totalPages,
   currentPage |-> 1,
   lastRead |-> DateOf(comicFolder.lastModified),
   folderPath |-> comicFolder.folderPath,
   pages |-> comicFolder.pages]

\* a conversion that keeps the pages of the saved record when there is one
convertKeepingPages(s, comicFolder) ==
  LET metadata == getComic(s, comicFolder.id)
  IN IF IsNull(metadata) THEN convertWithoutMetadata(s, comicFolder)
     ELSE [convertWithoutMetadata(s, comicFolder) EXCEPT
             !.pages = metadata.pages, !.totalPages = metadata.totalPages]

convertComicFolderToComic(s, comicFolder) ==
  LET metadata == getComic(s, comicFolder.id)
      none == IsNull(metadata)
  IN [id |-> comicFolder.id,
      title |-> OrElse(IF none THEN Undefined ELSE metadata.title, comicFolder.title),
      author |-> OrElse(IF none THEN Undefined ELSE metadata.author, Unknown),
      genre |-> IF none THEN Undefined ELSE metadata.genre,
      comicGenres |-> IF none THEN UndefinedGenres ELSE metadata.comicGenres,
      description |-> IF none THEN Undefined ELSE metadata.description,
      genres |-> <<>>,
      coverImage |-> OrElse(comicFolder.coverImage, Placeholder),
      totalPages |-> comicFolder.totalPages,
      currentPage |-> 1,
      lastRead |-> DateOf(comicFolder.lastModified),
      folderPath |-> comicFolder.folderPath,
      pages |-> comicFolder.pages]

ConvertAll(s, folders) == [i \in 1..Len(folders) |-> convertComicFolderToComic(s, folders[i])]

\* handleRefresh(directory): the scan, the merge, the bulk save
handleRefresh(s, t, oks) ==
  LET result == ReadDirectoryResult(t)
      convertedComics == ConvertAll(s, result.comics)
      saved == saveComics(s, convertedComics, oks)
  IN [mem |-> saved.mem, disk |-> saved.disk, saved |-> saved.saved,
      result |-> result, comics |-> convertedComics, saveResult |-> saved.ret]

\* the comic of a list with the given id (Array.prototype.find)
HasComic(list, id) == \E i \in 1..Len(list) : list[i].id = id
FindComic(list, id) ==
  list[CHOOSE i \in 1..Len(list) : list[i].id = id /\ \A j \in 1..(i - 1) : list[j].id # id]

ReplaceComic(list, id, comic) ==
  [i \in 1..Len(list) |-> IF list[i].id = id THEN comic ELSE list[i]]

\* ComicCard.handleSave, single edit mode, for a comic of the list
handleSave(s, t, list, comicId, editData, osOk, itemOk, indexOk) ==
  LET currentComic == FindComic(list, comicId)
      titleChanged == currentComic.title # editData.title
      attempt == titleChanged /\ ~Falsy(editData.title)
      renamed == IF attempt
                 THEN renameComicFolder(t, currentComic.title, editData.title,
                                        currentComic.folderPath, osOk)
                 ELSE [path |-> currentComic.folderPath, tree |-> t]
      updatedComic ==
        [currentComic EXCEPT
           !.title = editData.title,
           !.author = editData.author,
           !.description = editData.description,
           !.folderPath = OrElse(renamed.path, currentComic.folderPath),
           !.genre = Undefined,
           !.comicGenres = editData.comicGenres]
      saved == saveComic(s, updatedComic, itemOk, indexOk)
  IN [mem |-> saved.mem, disk |-> saved.disk, tree |-> renamed.tree,
      list |-> IF saved.ret THEN ReplaceComic(list, comicId, updatedComic) ELSE list,
      rename |-> IF ~attempt THEN "none"
                 ELSE IF renamed.path = NullPath THEN "failed" ELSE "done",
      updatedComic |-> updatedComic,
      saveSuccess |-> saved.ret]

(***************************************************************************)
(* Inputs.                                                                 *)
(***************************************************************************)
\* outcomes of k consecutive writes, at most MaxWriteFailures of them failing
WriteOutcomes(k) ==
  { [i \in 1..k |-> i \notin failed] :
      failed \in { f \in SUBSET (1..k) : Cardinality(f) <= MaxWriteFailures } }

\* titles typed into the edit form
TitleInputs == { <<"A">>, <<" ", "a">>, <<"a", " ", " ", "b">>, <<"a", "/", "b">> }

\* the titles comics have before an edit
OldTitleInputs == { <<"a">>, <<"a", " ", "b">> }

MissingPath == <<"/", "L", "/", "g", "o", "n", "e">>

Brave == <<"b", "r", "a", "v", "e">>
Shy == <<"s", "h", "y">>

BraveGenres == [EmptyComicGenres EXCEPT !.protagonist = <<Brave>>]
ShyGenres == [EmptyComicGenres EXCEPT !.narrative = <<Shy>>, !.supporting = <<Brave>>]

\* what the edit form holds when Save is pressed
EditTitles == { <<"a">>, <<"a", " ", " ", "b">>, <<>> }

EditMetadata ==
  { [author |-> <<"X">>, description |-> <<"d">>, comicGenres |-> BraveGenres],
    [author |-> <<>>, description |-> <<>>, comicGenres |-> EmptyComicGenres] }

EditInputs ==
  { [title |-> title, author |-> m.author, description |-> m.description,
     comicGenres |-> m.comicGenres] : title \in EditTitles, m \in EditMetadata }

St == [mem |-> mem, disk |-> disk]

RECURSIVE Remember(_, _)
Remember(saved, comics) ==
  IF comics = <<>> THEN saved
  ELSE Remember(Put(saved, Head(comics).id, Head(comics)), Tail(comics))

(***************************************************************************)
(* The scanner on its own, over every small tree.                          *)
(***************************************************************************)
\* const refreshCooldown = 5000, in milliseconds
refreshCooldown == 5000

\* the hook before its component mounts: lastRefreshTime = useRef(0), no timer set,
\* no call of refreshMetadata awaiting, no reload started, the page never shown again
HookUnmounted ==
  [mainDirectory |-> <<>>, enabled |-> TRUE, mounted |-> FALSE, now |-> 0, shown |-> 0,
   lastRefreshTime |-> 0, timers |-> {}, awaiting |-> <<>>, reloads |-> <<>>]

\* no scan of the library is in flight, and no onRefresh timer is set
NoRefreshes == [calls |-> <<>>, timer |-> FALSE, finished |-> <<>>]

\* the path of the json folder under the application data
DataPath == <<"/", "d", "/", "j", "s", "o", "n">>

\* the singleton once initializeStorage has run to its end
Booted ==
  [pc |-> "done", doc |-> 4, dataPath |-> DataPath, written |-> {},
   read |-> [libraryIndex |-> EmptyIndex, genres |-> EmptyGenres,
             settings |-> EmptySettings, readingProgress |-> EmptyMap]]

\* no settings update is in flight and none has written a key
NoUpdates == [calls |-> <<>>, last |-> EmptySettings]

\* no comic is open in the reader
ReaderClosed ==
  [open |-> FALSE, selectedComic |-> 0, comicId |-> ComicId(<<>>, 0, <<>>),
   currentPage |-> 1, totalPages |-> 0]

Settled == boot = Booted /\ updates = NoUpdates /\ reader = ReaderClosed

NoAsync == hook = HookUnmounted /\ refreshes = NoRefreshes /\ Settled

StoreIdle ==
  /\ mem = EmptyMem /\ disk = EmptyDisk /\ comicList = <<>>
  /\ gm = InitialGenreManager /\ lastSaved = EmptyMap /\ steps = 0
  /\ NoAsync

\* the scan history after one more scan, and after an operation on the tree
Scanned(history, result) ==
  IF history = <<>> THEN <<result>> ELSE <<history[Len(history)], result>>

AfterTreeOp(history, before, after) == IF after = before THEN history ELSE <<>>

InitScan ==
  /\ fsys \in SmallTrees
  /\ StoreIdle /\ scanHistory = <<>>
  /\ op = "init" /\ args = Nothing /\ ret = NoScan

\* a handler that keeps one comics array for all its calls
ReadDirectoryAccumulating ==
  LET fresh == ReadDirectoryResult(fsys)
      kept == IF op = "readDirectory" THEN ret.comics ELSE <<>>
      result == [fresh EXCEPT !.comics = kept \o fresh.comics,
                              !.totalComics = Len(kept) + fresh.totalComics]
  IN /\ ret' = result
     /\ scanHistory' = Scanned(scanHistory, result)
     /\ op' = "readDirectory" /\ args' = [directoryPath |-> fsys.root]
     /\ UNCHANGED <<fsys, mem, disk, comicList, gm, lastSaved, steps, hook, refreshes, boot, updates, reader>>

\* window.electronAPI.readDirectory(dirPath) on the root of the tree
ReadDirectory ==
  /\ UNCHANGED <<hook, refreshes, boot, updates, reader>>
  /\ ret' = ReadDirectoryResult(fsys)
  /\ scanHistory' = Scanned(scanHistory, ReadDirectoryResult(fsys))
  /\ op' = "readDirectory" /\ args' = [directoryPath |-> fsys.root]
  /\ UNCHANGED <<fsys, mem, disk, comicList, gm, lastSaved, steps>>

NextScan == ReadDirectory

SpecScan == InitScan /\ [][NextScan]_vars

\* the recursion depths at which a folder is handed to scanForComics
ScanDepths == (maxDepth - 1)..(maxDepth + 1)

\* scanForComics(dirPath, depth) on a folder the recursion has come to at
\* that depth: the records it returns
ScanAtDepth ==
  /\ UNCHANGED <<hook, refreshes, boot, updates, reader>>
  /\ \E depth \in ScanDepths :
       /\ ret' = [comics |-> scanForComics(fsys, fsys.root, 0, depth)]
       /\ op' = "scanForComics" /\ args' = [dirPath |-> fsys.root, depth |-> depth]
  /\ UNCHANGED <<fsys, mem, disk, comicList, gm, lastSaved, scanHistory, steps>>

NextDepth == ScanAtDepth

SpecDepth == InitScan /\ [][NextDepth]_vars

(***************************************************************************)
(* Renames and scans of a library whose folders are readable and visible.  *)
(***************************************************************************)
RenameTrees ==
  { t \in SmallTrees :
      /\ t.root = <<"/", "L">>
      /\ \A n \in Folders(t) : t.dirs[n].readable
      /\ \A n \in Folders(t) \ {0} : IsVisible(t.dirs[n].name)
      /\ t.dirs[0].files = <<>>
      /\ \A n \in Folders(t) \ {0} : t.dirs[n].files \in { <<nTxt>>, <<aJpg, BJpg>> } }

InitRename ==
  /\ fsys \in RenameTrees
  /\ StoreIdle /\ scanHistory = <<>>
  /\ op = "init" /\ args = Nothing /\ ret = NoScan

\* fileStorage.renameComicFolder(oldTitle, newTitle, oldPath)
RenameComicFolder ==
  \E oldTitle \in OldTitleInputs, newTitle \in TitleInputs, osOk \in BOOLEAN :
    \E oldPath \in { FullPath(fsys, n) : n \in Folders(fsys) \ {0} } \cup { MissingPath } :
      LET r == renameComicFolder(fsys, oldTitle, newTitle, oldPath, osOk)
      IN /\ fsys' = r.tree
         /\ op' = "renameComicFolder"
         /\ args' = [oldTitle |-> oldTitle, newTitle |-> newTitle, oldPath |-> oldPath,
                     osOk |-> osOk]
         /\ ret' = [path |-> r.path]
         /\ scanHistory' = AfterTreeOp(scanHistory, fsys, r.tree)
         /\ UNCHANGED <<mem, disk, comicList, gm, lastSaved, steps, hook, refreshes, boot, updates, reader>>

NextRename == ReadDirectory \/ RenameComicFolder

SpecRename == InitRename /\ [][NextRename]_vars

(***************************************************************************)
(* The library: refreshes, edits, index removals, clearing and restarts.   *)
(***************************************************************************)
\* libraries of two folders named a and a b, the second one a comic
StoreTrees ==
  { t \in RenameTrees :
      /\ \A n \in Folders(t) \ {0} : t.dirs[n].name \in OldTitleInputs
      /\ t.dirs[MaxFolders].files = <<aJpg, BJpg>> }

\* one more operation of the library, while fewer than MaxSteps have run
OneMoreStep == steps < MaxSteps /\ steps' = steps + 1

Init ==
  /\ fsys \in StoreTrees
  /\ StoreIdle /\ scanHistory = <<>>
  /\ op = "init" /\ args = Nothing /\ ret = Nothing

\* ComicsLibrary.handleRefresh(directory) on the root of the tree
HandleRefresh ==
  /\ UNCHANGED <<hook, refreshes, boot, updates, reader>>
  /\ OneMoreStep
  /\ \E oks \in WriteOutcomes(2 * ReadDirectoryResult(fsys).totalComics + 1) :
    LET r == handleRefresh(St, fsys, oks)
    IN /\ mem' = r.mem /\ disk' = r.disk
       /\ comicList' = r.comics
       /\ lastSaved' = Remember(lastSaved, r.saved)
       /\ scanHistory' = Scanned(scanHistory, r.result)
       /\ op' = "handleRefresh" /\ args' = [oks |-> oks] /\ ret' = [comics |-> r.comics, saveComics |-> r.saveResult]
       /\ UNCHANGED <<fsys, gm>>

\* ComicCard.handleSave(comicId) in single edit mode
HandleSave ==
  /\ UNCHANGED <<hook, refreshes, boot, updates, reader>>
  /\ OneMoreStep
  /\ \E i \in 1..Len(comicList), editData \in EditInputs,
     osOk \in BOOLEAN, itemOk \in BOOLEAN, indexOk \in BOOLEAN :
    \* the index is written only after the item file was
    (~itemOk => indexOk) /\
    LET comicId == comicList[i].id
        r == handleSave(St, fsys, comicList, comicId, editData, osOk, itemOk, indexOk)
    IN /\ mem' = r.mem /\ disk' = r.disk
       /\ fsys' = r.tree
       /\ comicList' = r.list
       /\ lastSaved' = IF r.saveSuccess THEN Put(lastSaved, comicId, r.updatedComic)
                       ELSE lastSaved
       /\ scanHistory' = AfterTreeOp(scanHistory, fsys, r.tree)
       /\ op' = "handleSave"
       /\ args' = [comicId |-> comicId, editData |-> editData, osOk |-> osOk,
                   itemOk |-> itemOk, indexOk |-> indexOk]
       /\ ret' = [rename |-> r.rename, saveSuccess |-> r.saveSuccess]
       /\ UNCHANGED gm

\* fileStorage.deleteComic(comicId)
DeleteComic ==
  /\ UNCHANGED <<hook, refreshes, boot, updates, reader>>
  /\ OneMoreStep
  /\ \E comicId \in DOMAIN disk.comics, indexOk \in BOOLEAN :
    LET r == deleteComic(St, comicId, indexOk)
    IN /\ mem' = r.mem /\ disk' = r.disk
       /\ op' = "deleteComic" /\ args' = [comicId |-> comicId, indexOk |-> indexOk]
       /\ ret' = [success |-> r.ret]
       /\ UNCHANGED <<fsys, comicList, gm, lastSaved, scanHistory>>

\* the Clear All Data button: fileStorage.clearAllData()
ClearAllData ==
  /\ UNCHANGED <<hook, refreshes, boot, updates, reader>>
  /\ OneMoreStep
  /\ \E oks \in WriteOutcomes(4) :
    LET r == clearAllData(St, oks)
    IN /\ mem' = r.mem /\ disk' = r.disk
       /\ op' = "clearAllData" /\ args' = [oks |-> oks] /\ ret' = Nothing
       /\ UNCHANGED <<fsys, comicList, gm, lastSaved, scanHistory>>

\* the application is closed and started again: a new store instance loads
\* its documents from the files, the components start empty
Restart ==
  /\ UNCHANGED <<hook, refreshes, boot, updates, reader>>
  /\ OneMoreStep
  /\ mem' = loadData(St).mem
  /\ comicList' = <<>> /\ gm' = InitialGenreManager
  /\ op' = "restart" /\ args' = Nothing /\ ret' = Nothing
  /\ UNCHANGED <<fsys, disk, lastSaved, scanHistory>>

Next == HandleRefresh \/ HandleSave \/ DeleteComic \/ ClearAllData \/ Restart

Spec == Init /\ [][Next]_vars

(***************************************************************************)
(* Refreshes of a library whose folders gain pages between them.           *)
(***************************************************************************)
\* somebody copies c.PNG into a folder that has none: the folder is modified
AddPage ==
  /\ UNCHANGED <<hook, refreshes, boot, updates, reader>>
  /\ OneMoreStep
  /\ \E n \in Folders(fsys) \ {0} :
       /\ ~Includes(fsys.dirs[n].files, cPNG)
       /\ fsys' = [fsys EXCEPT !.dirs[n].files = Append(@, cPNG),
                               !.dirs[n].mtime = @ + MaxFolders]
       /\ op' = "addPage" /\ args' = [folder |-> FullPath(fsys, n)]
  /\ ret' = Nothing
  /\ scanHistory' = <<>>
  /\ UNCHANGED <<mem, disk, comicList, gm, lastSaved>>

NextMerge == HandleRefresh \/ AddPage

SpecMerge == Init /\ [][NextMerge]_vars

(***************************************************************************)
(* The GenreManager over a library that refreshes and edits have filled.   *)
(***************************************************************************)
AllOk(k) == [i \in 1..k |-> TRUE]

\* a library: the store, the tree and the comics of the page
FreshLibrary(t) == [mem |-> EmptyMem, disk |-> EmptyDisk, tree |-> t, list |-> <<>>]

\* a refresh of the library with every write succeeding
Refreshed(lib) ==
  LET r == handleRefresh(lib, lib.tree,
                         AllOk(2 * ReadDirectoryResult(lib.tree).totalComics + 1))
  IN [mem |-> r.mem, disk |-> r.disk, tree |-> lib.tree, list |-> r.comics]

\* what the user does with a comic of the page: nothing, or an edit of its
\* tags that keeps the title or retypes it with two spaces
EditChoices ==
  { [edit |-> FALSE, retitle |-> FALSE, comicGenres |-> EmptyComicGenres],
    [edit |-> TRUE, retitle |-> FALSE, comicGenres |-> BraveGenres],
    [edit |-> TRUE, retitle |-> TRUE, comicGenres |-> BraveGenres],
    [edit |-> TRUE, retitle |-> FALSE, comicGenres |-> ShyGenres] }

\* the edit form of a comic (ComicCard.handleEdit) with the choice typed in
EditDataOf(comic, choice) ==
  [title |-> IF choice.retitle THEN <<"a", " ", " ", "b">> ELSE comic.title,
   author |-> OrElse(comic.author, <<>>),
   description |-> OrElse(comic.description, <<>>),
   comicGenres |-> choice.comicGenres]

\* the comics of the page from the i-th on, each edited as chosen
RECURSIVE EditEach(_, _, _)
EditEach(lib, choices, i) ==
  IF i > Len(lib.list) THEN lib
  ELSE IF ~choices[i].edit THEN EditEach(lib, choices, i + 1)
  ELSE LET comic == lib.list[i]
           r == handleSave(lib, lib.tree, lib.list, comic.id,
                           EditDataOf(comic, choices[i]), TRUE, TRUE, TRUE)
       IN EditEach([mem |-> r.mem, disk |-> r.disk, tree |-> r.tree, list |-> r.list],
                   choices, i + 1)

\* libraries after a refresh, edits, another refresh and the same edit of
\* every comic
GenreLibraries ==
  { EditEach(Refreshed(EditEach(Refreshed(FreshLibrary(t)), first, 1)),
             [i \in 1..MaxFolders |-> second], 1) :
      t \in StoreTrees, first \in [1..MaxFolders -> EditChoices],
      second \in { c \in EditChoices : ~c.retitle } }

\* catalogs an earlier session has saved
SavedCatalogs ==
  { EmptyGenres,
    [personality |-> <<Brave, Shy>>, verb |-> <<>>, plot |-> <<Brave>>] }

\* what is typed into the new genre field
NewGenreInputs == { Brave, <<" ">> \o Shy }

InitGenres ==
  /\ \E lib \in GenreLibraries, catalog \in SavedCatalogs :
       /\ fsys = lib.tree /\ comicList = lib.list
       /\ mem = [lib.mem EXCEPT !.genres = catalog]
       /\ disk = [lib.disk EXCEPT !.genres = catalog]
       /\ gm = LoadGenres(InitialGenreManager, [mem |-> mem, disk |-> disk])
  /\ lastSaved = EmptyMap /\ scanHistory = <<>> /\ steps = 0 /\ NoAsync
  /\ op = "init" /\ args = Nothing /\ ret = Nothing

\* the Add button of the GenreManager
AddGenre ==
  /\ UNCHANGED <<hook, refreshes, boot, updates, reader>>
  /\ OneMoreStep
  /\ \E category \in GenreCategories, value \in NewGenreInputs, ok \in BOOLEAN :
       /\ Trim(value) # <<>>
       /\ LET r == addGenre(gm, St, category, value, ok)
          IN /\ gm' = r.g /\ mem' = r.s.mem /\ disk' = r.s.disk
             /\ op' = "addGenre"
             /\ args' = [category |-> category, value |-> value, ok |-> ok]
  /\ ret' = Nothing
  /\ UNCHANGED <<fsys, comicList, lastSaved, scanHistory>>

\* a click on a genre of the catalog
HandleGenreSelect ==
  /\ UNCHANGED <<hook, refreshes, boot, updates, reader>>
  /\ OneMoreStep
  /\ \E category \in GenreCategories :
       \E index \in 1..Len(gm.genres[category]) :
         /\ gm' = handleGenreSelect(gm, category, index, gm.genres[category][index])
         /\ op' = "handleGenreSelect"
         /\ args' = [category |-> category, index |-> index]
  /\ ret' = Nothing
  /\ UNCHANGED <<fsys, mem, disk, comicList, lastSaved, scanHistory>>

\* the Delete button: deleteGenre, which returns when nothing is selected
DeleteGenre ==
  /\ UNCHANGED <<hook, refreshes, boot, updates, reader>>
  /\ OneMoreStep
  /\ gm.selectedGenre # NoGenre
  /\ \E ok \in BOOLEAN :
       LET r == checkGenreUsage(gm, St, gm.selectedGenre.category,
                                gm.selectedGenre.index, gm.selectedGenre.value, ok)
       IN /\ gm' = r.g /\ mem' = r.s.mem /\ disk' = r.s.disk
          /\ op' = "deleteGenre"
          /\ args' = [category |-> gm.selectedGenre.category,
                      index |-> gm.selectedGenre.index,
                      value |-> gm.selectedGenre.value, ok |-> ok]
  /\ ret' = Nothing
  /\ UNCHANGED <<fsys, comicList, lastSaved, scanHistory>>

\* the Edit button on the selected genre (startEdit), a new value typed, and
\* the Save button (saveEdit)
SaveEdit ==
  /\ UNCHANGED <<hook, refreshes, boot, updates, reader>>
  /\ OneMoreStep
  /\ gm.selectedGenre # NoGenre
  /\ \E value \in NewGenreInputs, ok \in BOOLEAN :
       LET r == saveEdit(gm, St, gm.selectedGenre.category, gm.selectedGenre.index, value, ok)
       IN /\ gm' = r.g /\ mem' = r.s.mem /\ disk' = r.s.disk
          /\ op' = "saveEdit"
          /\ args' = [category |-> gm.selectedGenre.category,
                      index |-> gm.selectedGenre.index, value |-> value, ok |-> ok]
  /\ ret' = Nothing
  /\ UNCHANGED <<fsys, comicList, lastSaved, scanHistory>>

\* the Stay Here button of the alert
StayHere ==
  /\ UNCHANGED <<hook, refreshes, boot, updates, reader>>
  /\ OneMoreStep
  /\ gm.showDeleteAlert
  /\ gm' = [gm EXCEPT !.showDeleteAlert = FALSE]
  /\ op' = "stayHere" /\ args' = Nothing /\ ret' = Nothing
  /\ UNCHANGED <<fsys, mem, disk, comicList, lastSaved, scanHistory>>

NextGenres == AddGenre \/ HandleGenreSelect \/ DeleteGenre \/ SaveEdit \/ StayHere

SpecGenres == InitGenres /\ [][NextGenres]_vars

(***************************************************************************)
(* The comic files of a library get lost or damaged, and are listed.       *)
(***************************************************************************)
InitFiles ==
  /\ \E lib \in GenreLibraries :
       /\ fsys = lib.tree /\ comicList = lib.list
       /\ mem = lib.mem /\ disk = lib.disk
  /\ gm = InitialGenreManager
  /\ lastSaved = EmptyMap /\ scanHistory = <<>> /\ steps = 0 /\ NoAsync
  /\ op = "init" /\ args = Nothing /\ ret = Nothing

\* a comic file is deleted, or overwritten with something that is not JSON
DamageFile ==
  /\ UNCHANGED <<hook, refreshes, boot, updates, reader>>
  /\ \E comicId \in DOMAIN disk.comics, how \in {"missing", "corrupt"} :
       /\ disk.comics[comicId] # CorruptFile
       /\ disk' = [disk EXCEPT !.comics = IF how = "missing" THEN Remove(@, comicId)
                                          ELSE Put(@, comicId, CorruptFile)]
       /\ op' = "damageFile" /\ args' = [comicId |-> comicId, how |-> how]
  /\ ret' = Nothing
  /\ UNCHANGED <<fsys, mem, comicList, gm, lastSaved, scanHistory, steps>>

\* fileStorage.getAllComics()
GetAllComics ==
  /\ UNCHANGED <<hook, refreshes, boot, updates, reader>>
  /\ ret' = [comics |-> getAllComics(St)]
  /\ op' = "getAllComics" /\ args' = Nothing
  /\ UNCHANGED <<fsys, mem, disk, comicList, gm, lastSaved, scanHistory, steps>>

NextFiles == DamageFile \/ GetAllComics

SpecFiles == InitFiles /\ [][NextFiles]_vars

(***************************************************************************)
(* One useAutoRefreshMetadata instance: its mount, the visibilitychange     *)
(* listener and its timers, manual calls, and the reloads that await        *)
(* fileStorage.getLibrary().  Times are milliseconds of Date.now().         *)
(***************************************************************************)
StartTime == 10000
MaxNow == 15100
MaxCalls == 2
MaxShown == 2

\* setTimeout(refreshMetadata, 100)
visibilityDelay == 100

\* refreshMetadata up to its await: nothing when the hook is off or the last
\* refresh is less than refreshCooldown old, else a reload starts and waits
\* for getLibrary with the now it has read
refreshMetadata(h) ==
  IF Falsy(h.mainDirectory) \/ ~h.enabled THEN h
  ELSE IF h.now - h.lastRefreshTime < refreshCooldown THEN h
  ELSE [h EXCEPT !.awaiting = Append(@, [now |-> h.now]),
                 !.reloads = Append(@, h.now)]

\* the rest of refreshMetadata once getLibrary has settled with an array:
\* the comics of the directory, and the now of the call as the last refresh
refreshMetadataSettled(h, i, s) ==
  [hook |-> [h EXCEPT !.lastRefreshTime = h.awaiting[i].now,
                      !.awaiting = RemoveAt(@, i)],
   comics |-> SelectSeq(getAllComics(s), LAMBDA comic : comic.folderPath = h.mainDirectory)]

InitCooldown ==
  /\ \E t \in StoreTrees, enabled \in BOOLEAN, named \in BOOLEAN :
       LET lib == Refreshed(FreshLibrary(t))
       IN /\ fsys = t /\ mem = lib.mem /\ disk = lib.disk /\ comicList = lib.list
          /\ hook = [HookUnmounted EXCEPT !.now = StartTime, !.enabled = enabled,
                                         !.mainDirectory = IF named THEN t.root ELSE <<>>]
  /\ gm = InitialGenreManager /\ refreshes = NoRefreshes /\ Settled
  /\ lastSaved = EmptyMap /\ scanHistory = <<>> /\ steps = 0
  /\ op = "init" /\ args = Nothing /\ ret = Nothing

HookFrame ==
  UNCHANGED <<fsys, mem, disk, comicList, gm, lastSaved, scanHistory, steps, refreshes,
              boot, updates, reader>>

\* the effect of the hook runs: with the hook on, the listener is added and
\* refreshMetadata is called
Mount ==
  /\ ~hook.mounted
  /\ hook' = IF ~hook.enabled \/ Falsy(hook.mainDirectory)
             THEN [hook EXCEPT !.mounted = TRUE]
             ELSE refreshMetadata([hook EXCEPT !.mounted = TRUE])
  /\ op' = "mount" /\ args' = Nothing /\ ret' = Nothing
  /\ HookFrame

\* handleVisibilityChange: a page that became visible sets the timer
HandleVisibilityChange ==
  /\ hook.mounted /\ hook.enabled /\ ~Falsy(hook.mainDirectory)
  /\ \E hidden \in BOOLEAN :
       /\ hidden \/ hook.shown < MaxShown
       /\ hook' = IF hidden THEN hook
                  ELSE [hook EXCEPT !.timers = @ \cup {hook.now + visibilityDelay},
                                    !.shown = @ + 1]
       /\ op' = "visibilitychange" /\ args' = [hidden |-> hidden] /\ ret' = Nothing
  /\ HookFrame

\* a timer that is due calls refreshMetadata
TimerFires ==
  /\ \E due \in hook.timers :
       /\ due <= hook.now
       /\ Len(hook.awaiting) < MaxCalls
       /\ hook' = refreshMetadata([hook EXCEPT !.timers = @ \ {due}])
       /\ op' = "timer" /\ args' = [due |-> due] /\ ret' = Nothing
  /\ HookFrame

\* a caller calls the refreshMetadata the hook returned
ManualRefresh ==
  /\ hook.mounted
  /\ Len(hook.awaiting) < MaxCalls
  /\ hook' = refreshMetadata(hook)
  /\ op' = "refreshMetadata" /\ args' = Nothing /\ ret' = Nothing
  /\ HookFrame

\* the getLibrary of a reload settles
GetLibrarySettles ==
  /\ \E i \in DOMAIN hook.awaiting :
       LET r == refreshMetadataSettled(hook, i, St)
       IN /\ hook' = r.hook
          /\ op' = "onMetadataRefreshed" /\ args' = [call |-> i]
          /\ ret' = [comics |-> r.comics]
  /\ HookFrame

\* the times worth waiting for: a timer is due, or the cooldown of the last
\* refresh or of a reload that awaits has run out, or is one millisecond short
Moments(h) ==
  LET stamps == {h.lastRefreshTime} \cup { h.awaiting[i].now : i \in DOMAIN h.awaiting }
  IN h.timers \cup { stamp + refreshCooldown - early : stamp \in stamps, early \in {0, 1} }

\* time passes
TimePasses ==
  /\ \E moment \in Moments(hook) :
       /\ hook.now < moment /\ moment <= MaxNow
       /\ hook' = [hook EXCEPT !.now = moment]
  /\ op' = "wait" /\ args' = Nothing /\ ret' = Nothing
  /\ HookFrame

NextCooldown ==
  \/ Mount \/ HandleVisibilityChange \/ TimerFires \/ ManualRefresh
  \/ GetLibrarySettles \/ TimePasses

SpecCooldown == InitCooldown /\ [][NextCooldown]_vars

(***************************************************************************)
(* Scans of the library that overlap.  The Save button of DirectorySettings *)
(* starts handleScanDirectory through onDirectoryChange and sets a timer    *)
(* that starts handleRefresh; each call runs from one await to the next,    *)
(* and nothing keeps the steps of two calls apart.  Every write succeeds.   *)
(***************************************************************************)

\* a call that has sent its readDirectory
StartedCall(kind, inFlight) ==
  [kind |-> kind, pc |-> "readDirectory", overlaps |-> inFlight,
   folders |-> <<>>, comics |-> <<>>, next |-> 1, edited |-> EmptyMap]

InFlight(r) == \E k \in DOMAIN r.calls : r.calls[k].pc # "done"

\* the call k of r after a step that leaves it at pc
Moved(r, k, pc) ==
  [r EXCEPT !.calls[k].pc = pc,
            !.finished = IF pc = "done" THEN Append(@, k) ELSE @]

\* where a call goes after a saveComic, and after saveComics
AfterSaveComic(call) == IF call.next < Len(call.comics) THEN "saveComic" ELSE "saveIndex"
AfterSaveComics(call) == IF call.kind = "handleScanDirectory" THEN "setSettings" ELSE "done"

\* the end of saveComics: totalComics and the write of the index
saveComicsIndex(s, comics) ==
  LET index == [s.mem.libraryIndex EXCEPT !.totalComics = Len(comics)]
  IN [mem |-> [s.mem EXCEPT !.libraryIndex = index],
      disk |-> [s.disk EXCEPT !.index = index]]

InitOverlap ==
  /\ \E t \in StoreTrees, scanned \in BOOLEAN :
       LET lib == IF scanned THEN Refreshed(FreshLibrary(t)) ELSE FreshLibrary(t)
       IN fsys = t /\ mem = lib.mem /\ disk = lib.disk /\ comicList = lib.list
  /\ gm = InitialGenreManager /\ NoAsync
  /\ lastSaved = EmptyMap /\ scanHistory = <<>> /\ steps = 0
  /\ op = "init" /\ args = Nothing /\ ret = Nothing

StoreFrame == UNCHANGED <<fsys, mem, disk, comicList>>
OverlapFrame == UNCHANGED <<gm, lastSaved, scanHistory, steps, hook, boot, updates, reader>>

\* DirectorySettings.handleSave with no scan result of its own:
\* onDirectoryChange(directory, undefined) calls handleScanDirectory, and
\* setTimeout(() => onRefresh(directory), 100) is set
HandleSaveDirectory ==
  /\ refreshes.calls = <<>>
  /\ refreshes' = [refreshes EXCEPT
                     !.calls = Append(@, StartedCall("handleScanDirectory", FALSE)),
                     !.timer = TRUE]
  /\ op' = "DirectorySettings.handleSave" /\ args' = [directory |-> fsys.root]
  /\ ret' = Nothing
  /\ StoreFrame /\ OverlapFrame

\* the timer fires: onRefresh(directory) is handleRefresh(directory)
OnRefresh ==
  /\ refreshes.timer
  /\ refreshes' = [refreshes EXCEPT
                     !.calls = Append(@, StartedCall("handleRefresh", InFlight(refreshes))),
                     !.timer = FALSE]
  /\ op' = "onRefresh" /\ args' = [directory |-> fsys.root] /\ ret' = Nothing
  /\ StoreFrame /\ OverlapFrame

\* await window.electronAPI.readDirectory(targetDirectory) returns
ReadDirectoryReturns ==
  /\ \E k \in DOMAIN refreshes.calls :
       /\ refreshes.calls[k].pc = "readDirectory"
       /\ refreshes' = [Moved(refreshes, k, "convert") EXCEPT
                          !.calls[k].folders = ReadDirectoryResult(fsys).comics]
       /\ op' = "readDirectory" /\ args' = [call |-> k]
  /\ ret' = Nothing
  /\ StoreFrame /\ OverlapFrame

\* await Promise.all(convertedComicsPromises) returns; setComics, and
\* saveComics begins: with no comic it goes to its index write
ConversionsReturn ==
  /\ \E k \in DOMAIN refreshes.calls :
       LET call == refreshes.calls[k]
           convertedComics == ConvertAll(St, call.folders)
       IN /\ call.pc = "convert"
          /\ refreshes' = [Moved(refreshes, k, IF convertedComics = <<>> THEN "saveIndex"
                                               ELSE "saveComic") EXCEPT
                             !.calls[k].comics = convertedComics]
          /\ comicList' = convertedComics
          /\ op' = "setComics" /\ args' = [call |-> k]
  /\ ret' = Nothing
  /\ UNCHANGED <<fsys, mem, disk>> /\ OverlapFrame

\* await this.saveComic(comic) returns, for the next comic of the loop
SaveComicReturns ==
  /\ \E k \in DOMAIN refreshes.calls :
       LET call == refreshes.calls[k]
           saved == saveComic(St, call.comics[call.next], TRUE, TRUE)
       IN /\ call.pc = "saveComic"
          /\ mem' = saved.mem /\ disk' = saved.disk
          /\ refreshes' = [Moved(refreshes, k, AfterSaveComic(call)) EXCEPT
                             !.calls[k].next = @ + 1]
          /\ op' = "saveComic" /\ args' = [call |-> k]
  /\ ret' = Nothing
  /\ UNCHANGED <<fsys, comicList>> /\ OverlapFrame

\* saveComics sets totalComics, writes the index and returns
SaveComicsReturns ==
  /\ \E k \in DOMAIN refreshes.calls :
       LET call == refreshes.calls[k]
           saved == saveComicsIndex(St, call.comics)
       IN /\ call.pc = "saveIndex"
          /\ mem' = saved.mem /\ disk' = saved.disk
          /\ refreshes' = Moved(refreshes, k, AfterSaveComics(call))
          /\ op' = "saveComics" /\ args' = [call |-> k]
  /\ ret' = Nothing
  /\ UNCHANGED <<fsys, comicList>> /\ OverlapFrame

\* handleScanDirectory: getSettings, then setSettings with mainDirectory
SetSettingsReturns ==
  /\ \E k \in DOMAIN refreshes.calls :
       LET saved == setSettings(St, [mem.settings EXCEPT !.mainDirectory = fsys.root], TRUE)
       IN /\ refreshes.calls[k].pc = "setSettings"
          /\ mem' = saved.mem /\ disk' = saved.disk
          /\ refreshes' = Moved(refreshes, k, "done")
          /\ op' = "setSettings" /\ args' = [call |-> k]
  /\ ret' = Nothing
  /\ UNCHANGED <<fsys, comicList>> /\ OverlapFrame

NextOverlap ==
  \/ HandleSaveDirectory \/ OnRefresh \/ ReadDirectoryReturns \/ ConversionsReturn
  \/ SaveComicReturns \/ SaveComicsReturns \/ SetSettingsReturns \/ AddPage

SpecOverlap == InitOverlap /\ [][NextOverlap]_vars

(***************************************************************************)
(* An edit of a comic while a scan of the library is in flight.             *)
(***************************************************************************)

\* the call has converted the comic id and not yet saved it
AwaitsSaveOf(call, id) ==
  /\ call.pc = "saveComic"
  /\ \E i \in call.next..Len(call.comics) : call.comics[i].id = id

\* the calls after an edit of the comic id: a call that awaits the save of
\* id has the edited comic noted, any other call has no edit of id noted
NoteEdit(r, id, comic) ==
  [r EXCEPT !.calls = [k \in DOMAIN @ |->
     [@[k] EXCEPT !.edited = IF AwaitsSaveOf(r.calls[k], id) THEN Put(@, id, comic)
                             ELSE Remove(@, id)]]]

\* ComicCard.handleSave of a comic of the page, the title kept, every write
\* succeeding, at any moment of the scans
EditDuringScan ==
  /\ OneMoreStep
  /\ \E i \in 1..Len(comicList), choice \in { c \in EditChoices : c.edit /\ ~c.retitle } :
       LET comicId == comicList[i].id
           editData == EditDataOf(comicList[i], choice)
           r == handleSave(St, fsys, comicList, comicId, editData, TRUE, TRUE, TRUE)
       IN /\ mem' = r.mem /\ disk' = r.disk /\ comicList' = r.list
          /\ refreshes' = NoteEdit(refreshes, comicId, r.updatedComic)
          /\ op' = "handleSave"
          /\ args' = [comicId |-> comicId, editData |-> editData, osOk |-> TRUE,
                      itemOk |-> TRUE, indexOk |-> TRUE]
          /\ ret' = [rename |-> r.rename, saveSuccess |-> r.saveSuccess]
  /\ UNCHANGED <<fsys, gm, lastSaved, scanHistory, hook, boot, updates, reader>>

NextEdit ==
  \/ HandleSaveDirectory \/ OnRefresh \/ ReadDirectoryReturns \/ ConversionsReturn
  \/ SaveComicReturns \/ SaveComicsReturns \/ SetSettingsReturns \/ EditDuringScan

SpecEdit == InitOverlap /\ [][NextEdit]_vars

(***************************************************************************)
(* The start of the singleton: the constructor calls initializeStorage and  *)
(* does not wait for it, and the operations of the store wait for nothing.  *)
(***************************************************************************)

\* the documents loadData reads, in its order
LoadedDocs == <<"libraryIndex", "genres", "settings", "readingProgress">>

DocOnDisk(d, doc) == IF doc = "libraryIndex" THEN d.index ELSE d[doc]

\* the singleton after its constructor: dataPath = '', data = {}, and
\* getAppDataPath awaited
Constructed == [Booted EXCEPT !.pc = "getAppDataPath", !.doc = 1, !.dataPath = <<>>]

ReaderModes == { <<"s">>, <<"w">> }

InitBoot ==
  /\ \E t \in StoreTrees, mode \in ReaderModes :
       LET lib == Refreshed(FreshLibrary(t))
           session == setSettings(lib, [EmptySettings EXCEPT !.mainDirectory = t.root,
                                                             !.readerMode = mode], TRUE)
       IN fsys = t /\ disk = session.disk
  /\ mem = EmptyMem /\ comicList = <<>> /\ boot = Constructed
  /\ gm = InitialGenreManager /\ hook = HookUnmounted /\ refreshes = NoRefreshes
  /\ updates = NoUpdates /\ reader = ReaderClosed
  /\ lastSaved = EmptyMap /\ scanHistory = <<>> /\ steps = 0
  /\ op = "init" /\ args = Nothing /\ ret = Nothing

BootFrame ==
  UNCHANGED <<fsys, comicList, gm, lastSaved, scanHistory, hook, refreshes, updates, reader>>

\* await getAppDataPath() returns: dataPath and comicsPath are set, the
\* directories are ensured and loadData sends its first read
AppDataPathReturns ==
  /\ boot.pc = "getAppDataPath"
  /\ boot' = [boot EXCEPT !.pc = "read", !.dataPath = DataPath]
  /\ op' = "getAppDataPath" /\ args' = Nothing /\ ret' = Nothing
  /\ UNCHANGED <<mem, disk, steps>> /\ BootFrame

\* the main process reads the next document of loadData
LoadDataReads ==
  /\ boot.pc = "read"
  /\ boot' = [boot EXCEPT !.pc = "assign",
                          !.read[LoadedDocs[boot.doc]] = DocOnDisk(disk, LoadedDocs[boot.doc])]
  /\ op' = "readFile" /\ args' = [doc |-> LoadedDocs[boot.doc]] /\ ret' = Nothing
  /\ UNCHANGED <<mem, disk, steps>> /\ BootFrame

\* loadData resumes and assigns what was read
LoadDataAssigns ==
  /\ boot.pc = "assign"
  /\ mem' = [mem EXCEPT ![LoadedDocs[boot.doc]] = boot.read[LoadedDocs[boot.doc]]]
  /\ boot' = [boot EXCEPT !.pc = IF boot.doc = Len(LoadedDocs) THEN "done" ELSE "read",
                          !.doc = IF boot.doc = Len(LoadedDocs) THEN @ ELSE @ + 1]
  /\ op' = "loadData" /\ args' = [doc |-> LoadedDocs[boot.doc]] /\ ret' = Nothing
  /\ UNCHANGED <<disk, steps>> /\ BootFrame

\* fileStorage.getComic(comicId): with dataPath = '' the file it asks for is
\* not the comic file
GetComicAtBoot ==
  /\ OneMoreStep
  /\ \E comicId \in DOMAIN disk.comics :
       /\ ret' = [comic |-> IF boot.dataPath = <<>> THEN NullComic ELSE getComic(St, comicId)]
       /\ op' = "getComic" /\ args' = [comicId |-> comicId, dataPath |-> boot.dataPath]
  /\ UNCHANGED <<mem, disk, boot>> /\ BootFrame

\* a settings update of the UI: getSettings, then setSettings with the reader
\* mode; with dataPath = '' the write does not reach settings.json
SetSettingsAtBoot ==
  /\ OneMoreStep
  /\ \E mode \in ReaderModes :
       LET saved == setSettings(St, [mem.settings EXCEPT !.readerMode = mode],
                                boot.dataPath # <<>>)
       IN /\ mem' = saved.mem /\ disk' = saved.disk
          /\ op' = "setSettings" /\ args' = [readerMode |-> mode, dataPath |-> boot.dataPath]
  /\ boot' = [boot EXCEPT !.written = @ \cup {"settings"}]
  /\ ret' = Nothing
  /\ BootFrame

NextBoot ==
  \/ AppDataPathReturns \/ LoadDataReads \/ LoadDataAssigns
  \/ GetComicAtBoot \/ SetSettingsAtBoot

SpecBoot == InitBoot /\ [][NextBoot]_vars

(***************************************************************************)
(* The settings updates of the UI: each is                                  *)
(*   const current = await fileStorage.getSettings();                       *)
(*   await fileStorage.setSettings({...(current || {}), key: value});       *)
(* and nothing keeps two of them apart.                                     *)
(***************************************************************************)
MaxUpdates == 2

DisplayModes == { <<"b">>, <<"t">> }

\* the keys the UI updates and the values it gives them
SettingsInputs(t) ==
  { [key |-> "mainDirectory", value |-> t.root] }
  \cup { [key |-> "displayMode", value |-> v] : v \in DisplayModes }
  \cup { [key |-> "readerMode", value |-> v] : v \in ReaderModes }

\* getSettings with the data loaded: this.data.settings || {}
getSettings(s) == s.mem.settings

\* the settings an update hands to setSettings
UpdatedSettings(call) == [call.current EXCEPT ![call.key] = call.value]

InitSettings ==
  /\ \E t \in StoreTrees, scanned \in BOOLEAN :
       LET lib == IF scanned THEN Refreshed(FreshLibrary(t)) ELSE FreshLibrary(t)
       IN fsys = t /\ mem = lib.mem /\ disk = lib.disk /\ comicList = lib.list
  /\ gm = InitialGenreManager /\ NoAsync
  /\ lastSaved = EmptyMap /\ scanHistory = <<>> /\ steps = 0
  /\ op = "init" /\ args = Nothing /\ ret = Nothing

SettingsFrame ==
  UNCHANGED <<fsys, comicList, gm, lastSaved, scanHistory, hook, refreshes, boot, reader>>

\* an update starts: getSettings returns the settings object of that moment
GetSettingsReturns ==
  /\ OneMoreStep
  /\ Len(updates.calls) < MaxUpdates
  /\ \E input \in SettingsInputs(fsys) :
       /\ updates' = [updates EXCEPT !.calls =
                        Append(@, [key |-> input.key, value |-> input.value,
                                   current |-> getSettings(St)])]
       /\ op' = "getSettings" /\ args' = input
  /\ ret' = Nothing
  /\ UNCHANGED <<mem, disk>> /\ SettingsFrame

\* an update resumes: setSettings with its copy of the settings and its key
SetSettingsRuns ==
  /\ \E k \in DOMAIN updates.calls :
       LET call == updates.calls[k]
           saved == setSettings(St, UpdatedSettings(call), TRUE)
       IN /\ mem' = saved.mem /\ disk' = saved.disk
          /\ updates' = [calls |-> RemoveAt(updates.calls, k),
                         last |-> [updates.last EXCEPT ![call.key] = call.value]]
          /\ op' = "setSettings" /\ args' = [key |-> call.key, value |-> call.value]
  /\ ret' = Nothing
  /\ UNCHANGED steps /\ SettingsFrame

NextSettings == GetSettingsReturns \/ SetSettingsRuns

SpecSettings == InitSettings /\ [][NextSettings]_vars

(***************************************************************************)
(* The reader: a comic of the library is opened at its saved page, pages    *)
(* are turned and saved as reading progress, the folder may lose a page and *)
(* the library may be refreshed while the reader is closed.                 *)
(***************************************************************************)

\* setReadingProgress(progress), the write succeeding
setReadingProgress(s, progress) ==
  [mem |-> [s.mem EXCEPT !.readingProgress = progress],
   disk |-> [s.disk EXCEPT !.readingProgress = progress]]

\* the progress entry of a comic at a page; lastRead is left out
SaveProgress(s, comicId, pageNumber) ==
  setReadingProgress(s, Put(s.mem.readingProgress, comicId, [currentPage |-> pageNumber]))

\* Index.handleComicSelect(comic), comic being the i-th of the list: the page
\* comes from the saved progress of the comic when there is one, else from the
\* comic, and is written into the comic and into the progress
handleComicSelect(s, list, i) ==
  LET comic == list[i]
      savedProgress == s.mem.readingProgress
      currentPage == IF comic.id \in DOMAIN savedProgress
                     THEN savedProgress[comic.id].currentPage ELSE comic.currentPage
      saved == SaveProgress(s, comic.id, currentPage)
  IN [mem |-> saved.mem, disk |-> saved.disk,
      list |-> [list EXCEPT ![i].currentPage = currentPage],
      reader |-> [open |-> TRUE, selectedComic |-> i, comicId |-> comic.id,
                  currentPage |-> currentPage, totalPages |-> comic.totalPages]]

\* the page the reader goes to, and whether it moves at all
goToNextPage(r) == IF r.currentPage < r.totalPages THEN r.currentPage + 1 ELSE r.currentPage
goToPreviousPage(r) == IF r.currentPage > 1 THEN r.currentPage - 1 ELSE r.currentPage
goToFirstPage(r) == 1
goToLastPage(r) == r.totalPages

PageAfter(r, button) ==
  CASE button = "next" -> goToNextPage(r)
    [] button = "previous" -> goToPreviousPage(r)
    [] button = "first" -> goToFirstPage(r)
    [] button = "last" -> goToLastPage(r)

InitReader ==
  /\ \E t \in StoreTrees :
       LET lib == Refreshed(FreshLibrary(t))
       IN fsys = t /\ mem = lib.mem /\ disk = lib.disk /\ comicList = lib.list
  /\ gm = InitialGenreManager /\ NoAsync
  /\ lastSaved = EmptyMap /\ scanHistory = <<>> /\ steps = 0
  /\ op = "init" /\ args = Nothing /\ ret = Nothing

ReaderFrame ==
  UNCHANGED <<fsys, gm, lastSaved, scanHistory, steps, hook, refreshes, boot, updates>>

\* a comic of the library is clicked
HandleComicSelect ==
  /\ ~reader.open
  /\ \E i \in 1..Len(comicList) :
       LET r == handleComicSelect(St, comicList, i)
       IN /\ mem' = r.mem /\ disk' = r.disk /\ comicList' = r.list /\ reader' = r.reader
          /\ op' = "handleComicSelect" /\ args' = [comicId |-> comicList[i].id]
  /\ ret' = Nothing
  /\ ReaderFrame

\* a navigation button of the reader: when the page changes, setCurrentPage
\* and onPageChange, which writes the page into the comic and the progress
GoToPage ==
  /\ reader.open
  /\ \E button \in {"next", "previous", "first", "last"} :
       LET newPage == PageAfter(reader, button)
           saved == SaveProgress(St, reader.comicId, newPage)
       IN /\ newPage # reader.currentPage
          /\ reader' = [reader EXCEPT !.currentPage = newPage]
          /\ comicList' = [comicList EXCEPT ![reader.selectedComic].currentPage = newPage]
          /\ mem' = saved.mem /\ disk' = saved.disk
          /\ op' = "goToPage" /\ args' = [button |-> button]
  /\ ret' = Nothing
  /\ ReaderFrame

\* handleCloseReader
HandleCloseReader ==
  /\ reader.open
  /\ reader' = ReaderClosed
  /\ op' = "handleCloseReader" /\ args' = Nothing /\ ret' = Nothing
  /\ UNCHANGED <<mem, disk, comicList>> /\ ReaderFrame

\* the last file of a folder is deleted outside of the application
LosePage ==
  /\ OneMoreStep
  /\ \E n \in Folders(fsys) \ {0} :
       /\ Len(fsys.dirs[n].files) >= 2
       /\ fsys' = [fsys EXCEPT !.dirs[n].files = SubSeq(@, 1, Len(@) - 1),
                               !.dirs[n].mtime = @ + MaxFolders]
       /\ op' = "losePage" /\ args' = [folder |-> FullPath(fsys, n)]
  /\ ret' = Nothing
  /\ scanHistory' = <<>>
  /\ UNCHANGED <<mem, disk, comicList, gm, lastSaved, hook, refreshes, boot, updates, reader>>

\* the Refresh button of the library, which the reader covers while it is open
RefreshBehindReader == ~reader.open /\ HandleRefresh

NextReader ==
  \/ HandleComicSelect \/ GoToPage \/ HandleCloseReader \/ LosePage \/ RefreshBehindReader

SpecReader == InitReader /\ [][NextReader]_vars

(***************************************************************************)
(* Properties of the scanner.                                              *)
(***************************************************************************)
ImageCount(files) == Cardinality({ i \in 1..Len(files) : IsImageFile(files[i]) })

\* the positions in the result of the records for folder n
RecordsFor(t, result, n) ==
  { i \in 1..Len(result.comics) : result.comics[i].folderPath = FullPath(t, n) }

PageName(page) == Basename(page)

AscendingIgnoringCase(pages) ==
  \A i \in 1..(Len(pages) - 1) :
    StrLess(ToLowerCase(PageName(pages[i])), ToLowerCase(PageName(pages[i + 1])))

AscendingByCodeUnit(pages) ==
  \A i \in 1..(Len(pages) - 1) : StrLess(PageName(pages[i]), PageName(pages[i + 1]))

\* the folder is looked at by a scan of the tree: it is readable and visible,
\* within the depth bound, and every folder above it below the root is a
\* readable visible folder without image files
RECURSIVE Reached(_, _)
Reached(t, n) ==
  IF n = 0 THEN t.dirs[0].readable
  ELSE /\ Reached(t, t.dirs[n].parent)
       /\ t.dirs[n].parent # 0 => ImageCount(t.dirs[t.dirs[n].parent].files) = 0
       /\ IsVisible(t.dirs[n].name)
       /\ t.dirs[n].readable
       /\ FolderLevel(t, n) - 1 <= maxDepth

\* the record of folder n counts and lists the image files of the folder
RecordMatchesFolder(t, r, n) ==
  /\ r.totalPages = ImageCount(t.dirs[n].files)
  /\ r.totalPages = Len(r.pages)
  /\ \A i \in 1..Len(r.pages) :
       \E k \in 1..Len(t.dirs[n].files) :
         /\ IsImageFile(t.dirs[n].files[k])
         /\ r.pages[i] = FileUrl(FullPath(t, n) \o <<"/">> \o t.dirs[n].files[k])
  /\ r.coverImage = r.pages[1]

\* C8 as stated: every visible folder below the root with at least one image
\* file has exactly one record, whose totalPages is the number of image files
\* and the length of pages, whose pages ascend in case-insensitive filename
\* order, and whose cover is the first page.
C8_AsStated ==
  op = "readDirectory" =>
    \A n \in Folders(fsys) \ {0} :
      (IsVisible(fsys.dirs[n].name) /\ ImageCount(fsys.dirs[n].files) >= 1
         /\ FolderLevel(fsys, n) - 1 <= maxDepth)
      => /\ Cardinality(RecordsFor(fsys, ret, n)) = 1
         /\ \A i \in RecordsFor(fsys, ret, n) :
              /\ RecordMatchesFolder(fsys, ret.comics[i], n)
              /\ AscendingIgnoringCase(ret.comics[i].pages)

\* C8: every folder with at least one image file that the scan reaches (a
\* readable visible folder within the depth bound whose ancestors below the
\* root are readable visible folders without images) has exactly one record;
\* its totalPages is the number of image files and the length of pages, its
\* pages ascend in UTF-16 code unit order of the filenames (upper case before
\* lower case), and its cover is the first page.
C8_ScanRecords ==
  op = "readDirectory" =>
    \A n \in Folders(fsys) \ {0} :
      (Reached(fsys, n) /\ ImageCount(fsys.dirs[n].files) >= 1)
      => /\ Cardinality(RecordsFor(fsys, ret, n)) = 1
         /\ \A i \in RecordsFor(fsys, ret, n) :
              /\ RecordMatchesFolder(fsys, ret.comics[i], n)
              /\ AscendingByCodeUnit(ret.comics[i].pages)

\* a scan has returned the record of a folder holding a.jpg and B.jpg
C8_Witness ==
  /\ op = "readDirectory"
  /\ \E n \in Folders(fsys) \ {0} :
       /\ Reached(fsys, n)
       /\ fsys.dirs[n].files = <<aJpg, BJpg>>
       /\ \E i \in RecordsFor(fsys, ret, n) :
            /\ ret.comics[i].totalPages = 2
            /\ PageName(ret.comics[i].pages[1]) = BJpg

\* C9: a scan returns no record for a folder without image files, every
\* record it returns has at least one page and totalPages >= 1, and the image
\* folders directly inside a reached folder without images are in the result,
\* one level deeper.
C9_NoEmptyRecords ==
  op = "readDirectory" =>
    /\ \A i \in 1..Len(ret.comics) :
         Len(ret.comics[i].pages) >= 1 /\ ret.comics[i].totalPages >= 1
    /\ \A n \in Folders(fsys) \ {0} :
         ImageCount(fsys.dirs[n].files) = 0 =>
           /\ RecordsFor(fsys, ret, n) = {}
           /\ Reached(fsys, n) =>
                \A c \in Folders(fsys) \ {0} :
                  (fsys.dirs[c].parent = n /\ Reached(fsys, c)
                     /\ ImageCount(fsys.dirs[c].files) >= 1)
                  => \E i \in RecordsFor(fsys, ret, c) :
                       ret.comics[i].depth = (FolderLevel(fsys, n) - 1) + 1

\* a scan went through a folder without images and returned the record of a
\* folder inside it
C9_Witness ==
  /\ op = "readDirectory"
  /\ \E n, c \in Folders(fsys) \ {0} :
       /\ fsys.dirs[c].parent = n
       /\ Reached(fsys, n)
       /\ ImageCount(fsys.dirs[n].files) = 0
       /\ RecordsFor(fsys, ret, n) = {}
       /\ \E i \in RecordsFor(fsys, ret, c) : ret.comics[i].depth = 1

\* the folders whose listing fails during a scan: unreadable visible folders
\* in the root or in a folder without images that the scan has reached
FailedReads(t) ==
  { n \in Folders(t) \ {0} :
      /\ IsVisible(t.dirs[n].name) /\ ~t.dirs[n].readable
      /\ Reached(t, t.dirs[n].parent)
      /\ t.dirs[n].parent # 0 => ImageCount(t.dirs[t.dirs[n].parent].files) = 0 }

\* C13 as stated: the scan of a root that cannot be read returns no comics
\* and exactly one error string.
C13_AsStated ==
  (op = "readDirectory" /\ ~fsys.dirs[0].readable) =>
    /\ ret.comics = <<>> /\ ret.totalComics = 0
    /\ Len(ret.errors) = 1

\* C14 as stated: a scan returns an error string for every folder whose
\* listing failed, and the record of every readable sibling of such a folder
\* that holds images.
C14_AsStated ==
  op = "readDirectory" =>
    /\ Len(ret.errors) >= Cardinality(FailedReads(fsys))
    /\ \A n \in FailedReads(fsys) :
         \A c \in Folders(fsys) \ {0} :
           (fsys.dirs[c].parent = fsys.dirs[n].parent /\ Reached(fsys, c)
              /\ ImageCount(fsys.dirs[c].files) >= 1)
           => RecordsFor(fsys, ret, c) # {}

SameSanitizedNames(a) == sanitizeTitle(a.oldTitle) = sanitizeTitle(a.newTitle)

SiblingPath(a) == Dirname(a.oldPath) \o <<"/">> \o sanitizeTitle(a.newTitle)

\* the folder at oldPath is at newPath afterwards, with the files it had, and
\* no other folder has changed
FolderMoved(before, after, oldPath, newPath) ==
  /\ IsFolderPath(before, oldPath)
  /\ ~IsFolderPath(after, oldPath)
  /\ IsFolderPath(after, newPath)
  /\ FolderAt(after, newPath) = FolderAt(before, oldPath)
  /\ Folders(after) = Folders(before)
  /\ \A n \in Folders(before) :
       /\ after.dirs[n].files = before.dirs[n].files
       /\ after.dirs[n].parent = before.dirs[n].parent
       /\ n # FolderAt(before, oldPath) => after.dirs[n].name = before.dirs[n].name

\* the three outcomes the rename is described with
RenameAsStated(a, before, after, result) ==
  IF SameSanitizedNames(a) THEN result = a.oldPath /\ after = before
  ELSE IF ~ExistsSync(before, a.oldPath) \/ ExistsSync(before, SiblingPath(a))
       THEN result = NullPath /\ after = before
       ELSE result = SiblingPath(a) /\ FolderMoved(before, after, a.oldPath, SiblingPath(a))

\* C3 as stated: with equal sanitized names the rename returns oldPath and
\* changes nothing; with a missing oldPath or an existing sibling path it
\* returns null and changes nothing; in every other case it renames the folder
\* and returns the new path.
C3_AsStated ==
  [][op' = "renameComicFolder" => RenameAsStated(args', fsys, fsys', ret'.path)]_vars

\* C3: with equal sanitized names the rename returns oldPath and changes
\* nothing; with a missing oldPath or an existing sibling path, or when the
\* operating system refuses the rename, it returns null and changes nothing;
\* in every other case it renames the folder and returns the new path.
C3_RenameOutcomes ==
  [][op' = "renameComicFolder" =>
       IF ~SameSanitizedNames(args') /\ ExistsSync(fsys, args'.oldPath)
            /\ ~ExistsSync(fsys, SiblingPath(args')) /\ ~args'.osOk
       THEN ret'.path = NullPath /\ fsys' = fsys
       ELSE RenameAsStated(args', fsys, fsys', ret'.path)]_vars

\* a rename moved a folder; one was refused because the sibling path is taken
C3_Witness ==
  /\ op = "renameComicFolder"
  /\ ret.path = <<"/", "L", "/", "a", "_", "b">>
  /\ IsFolderPath(fsys, ret.path)
  /\ ~IsFolderPath(fsys, args.oldPath)

(***************************************************************************)
(* Properties of the merge of a refresh.                                   *)
(***************************************************************************)
\* the comic record holds the structural fields of the scanned folder, the
\* time of modification as a Date or as the ISO string a file keeps of it
HasStructureOf(comic, folder) ==
  /\ comic.coverImage = folder.coverImage
  /\ comic.totalPages = folder.totalPages
  /\ comic.pages = folder.pages
  /\ comic.folderPath = folder.folderPath
  /\ "lastModified" \in DOMAIN comic
  /\ comic.lastModified \in {DateOf(folder.lastModified), IsoStringOf(folder.lastModified)}

C12_AsStated ==
  [][op' = "handleRefresh" =>
       \A i \in 1..Len(ReadDirectoryResult(fsys).comics) :
         LET folder == ReadDirectoryResult(fsys).comics[i]
             asScanned(c) == /\ c.author = folder.author
                             /\ c.comicGenres \in {EmptyComicGenres, UndefinedGenres}
         IN folder.id \notin DOMAIN disk.comics =>
              /\ asScanned(comicList'[i])
              /\ folder.id \in DOMAIN disk'.comics => asScanned(disk'.comics[folder.id])]_vars

\* C18 as stated: saveComics, as a refresh calls it, saves every record of
\* the batch whose file can be written, also after the save of an earlier
\* record has failed, and its result tells the caller what was saved: at the
\* least it is not the plain success value when the save of a record failed.
C18_AsStated ==
  op = "handleRefresh" =>
    /\ \A i \in 1..Len(ret.comics) :
         args.oks[2 * i - 1] =>
           /\ ret.comics[i].id \in DOMAIN disk.comics
           /\ disk.comics[ret.comics[i].id] = JsonOfComic(ret.comics[i])
    /\ ret.saveComics = TRUE => \A i \in 1..Len(ret.comics) : args.oks[2 * i - 1]

(***************************************************************************)
(* Properties of the GenreManager.                                         *)
(***************************************************************************)
\* the records of getAllComics that hold the value in a tag tier
Holders(s, value) ==
  { i \in 1..Len(getAllComics(s)) :
      LET tags == getAllComics(s)[i].comicGenres
      IN /\ tags # UndefinedGenres
         /\ \E tier \in DOMAIN tags : \E k \in 1..Len(tags[tier]) : tags[tier][k] = value }

HolderPaths(s, value) == { getAllComics(s)[i].folderPath : i \in Holders(s, value) }

\* C4: deleting the selected catalog value while a record of getAllComics
\* holds it in a tag tier leaves the catalog of the component, of the store
\* and of the genres file unchanged and lists the affected comics with exactly
\* one entry per distinct folder path of those records; when no record holds
\* it, the selected entry leaves the catalog of the component and of the store
\* at once (and of the genres file when its write succeeds) and the affected
\* list is empty.
C4_TagDeletionSafety ==
  [][op' = "deleteGenre" =>
       LET paths == HolderPaths(St, args'.value)
           affected == gm'.affectedComics
       IN IF paths # {}
          THEN /\ gm'.genres = gm.genres
               /\ mem'.genres = mem.genres /\ disk'.genres = disk.genres
               /\ { affected[k].folderPath : k \in 1..Len(affected) } = paths
               /\ Len(affected) = Cardinality(paths)
          ELSE /\ Len(gm'.genres[args'.category]) = Len(gm.genres[args'.category]) - 1
               /\ \A k \in 1..Len(gm'.genres[args'.category]) :
                    gm'.genres[args'.category][k] =
                      gm.genres[args'.category][IF k < args'.index THEN k ELSE k + 1]
               /\ \A c \in GenreCategories \ {args'.category} :
                    gm'.genres[c] = gm.genres[c]
               /\ mem'.genres = gm'.genres
               /\ args'.ok => disk'.genres = gm'.genres
               /\ affected = <<>>]_vars

\* a deletion was refused with one affected comic listed for two records of
\* the same folder
C4_Witness ==
  /\ op = "deleteGenre"
  /\ Cardinality(Holders(St, args.value)) = 2
  /\ Len(gm.affectedComics) = 1
  /\ gm.showDeleteAlert
  /\ Includes(gm.genres[args.category], args.value)

\* a value no comic holds was deleted at once
C4_WitnessUnused ==
  /\ op = "deleteGenre"
  /\ Holders(St, args.value) = {}
  /\ gm.affectedComics = <<>>
  /\ ~Includes(gm.genres[args.category], args.value)

(***************************************************************************)
(* Properties of the library.                                              *)
(***************************************************************************)
\* the comics a refresh returned that had a comic file when it started
Merged(list, before) == { i \in 1..Len(list) : list[i].id \in DOMAIN before.comics }

SameUserFields(a, b) ==
  /\ a.author = b.author
  /\ a.description = b.description
  /\ a.title = b.title
  /\ a.comicGenres = b.comicGenres

\* as SameUserFields, with an empty author or title of b read as not set
SameSetUserFields(a, b) ==
  /\ ~Falsy(b.author) => a.author = b.author
  /\ a.description = b.description
  /\ ~Falsy(b.title) => a.title = b.title
  /\ a.comicGenres = b.comicGenres

\* C1 as stated: every comic a refresh returns that had a persisted record
\* when the refresh started has the author, description, title and comicGenres
\* of that record, whatever they were, and so has the record persisted after
\* the refresh.
C1_AsStated ==
  [][op' = "handleRefresh" =>
       \A i \in Merged(comicList', disk) :
         /\ SameUserFields(comicList'[i], disk.comics[comicList'[i].id])
         /\ SameUserFields(disk'.comics[comicList'[i].id], disk.comics[comicList'[i].id])]_vars

\* C1: every comic a refresh returns that had a persisted record when the
\* refresh started has the description and comicGenres of that record, its
\* author when that was not empty and its title when that was not empty, and
\* so has the record persisted after the refresh; an empty saved author comes
\* back as "Unknown" and an empty saved title as the folder name.
C1_MergeKeepsUserFields ==
  [][op' = "handleRefresh" =>
       \A i \in Merged(comicList', disk) :
         LET old == disk.comics[comicList'[i].id]
         IN /\ SameSetUserFields(comicList'[i], old)
            /\ SameSetUserFields(disk'.comics[comicList'[i].id], old)
            /\ old.author = <<>> => comicList'[i].author = Unknown
            /\ old.title = <<>> => comicList'[i].title = Basename(comicList'[i].folderPath)]_vars

\* a refresh returned a comic with the author and the tag the user had saved
C1_Witness ==
  /\ op = "handleRefresh"
  /\ \E i \in 1..Len(comicList) :
       /\ comicList[i].author = <<"X">>
       /\ comicList[i].comicGenres = BraveGenres
       /\ comicList[i].id \in DOMAIN disk.comics
       /\ disk.comics[comicList[i].id].author = <<"X">>

\* C2 as stated: when the folder rename of a title edit fails, no record
\* update is committed: the comic files and the index are as before the edit.
C2_AsStated ==
  [][(op' = "handleSave" /\ ret'.rename = "failed") =>
       /\ disk'.comics = disk.comics
       /\ disk'.index = disk.index
       /\ mem'.libraryIndex = mem.libraryIndex]_vars

\* C5 as stated: an id has an entry in the library index exactly when its
\* comic file exists.
C5_AsStated ==
  DOMAIN mem.libraryIndex.comics.at = DOMAIN disk.comics

\* C6 as stated: saveComic returns true exactly when the item file and the
\* index file were both written, and false when either write fails.
C6_AsStated ==
  op = "handleSave" => (ret.saveSuccess <=> (args.itemOk /\ args.indexOk))

\* what deleteComic leaves alone: the comic files, the entries of the other
\* ids in the index of the store, and the settings, genres and progress
DeleteFrame(id) ==
  /\ disk'.comics = disk.comics
  /\ \A other \in DOMAIN mem.libraryIndex.comics.at \ {id} :
       /\ other \in DOMAIN mem'.libraryIndex.comics.at
       /\ mem'.libraryIndex.comics.at[other] = mem.libraryIndex.comics.at[other]
  /\ DOMAIN mem'.libraryIndex.comics.at = DOMAIN mem.libraryIndex.comics.at \ {id}
  /\ mem'.settings = mem.settings /\ disk'.settings = disk.settings
  /\ mem'.genres = mem.genres /\ disk'.genres = disk.genres
  /\ mem'.readingProgress = mem.readingProgress
  /\ disk'.readingProgress = disk.readingProgress
  /\ \A i \in 1..Len(getAllComics([mem |-> mem', disk |-> disk'])) :
       getAllComics([mem |-> mem', disk |-> disk'])[i].id # id
  /\ getComic([mem |-> mem', disk |-> disk'], id) = getComic(St, id)
  /\ ~IsNull(getComic(St, id))

\* C16 as stated: deleteComic(id) returns true and removes the index entry of
\* id in memory and in the index file, and nothing else changes.
C16_AsStated ==
  [][op' = "deleteComic" =>
       /\ ret'.success
       /\ DeleteFrame(args'.comicId)
       /\ args'.comicId \notin DOMAIN disk'.index.comics.at]_vars

\* the index ids whose comic file is there and is JSON
ReadableIds ==
  { id \in DOMAIN mem.libraryIndex.comics.at :
      id \in DOMAIN disk.comics /\ disk.comics[id] # CorruptFile }

\* the position of an id among the keys of the index
KeyPosition(id) ==
  CHOOSE k \in 1..Len(mem.libraryIndex.comics.keys) : mem.libraryIndex.comics.keys[k] = id

\* C17: getAllComics returns the records of exactly the index ids whose comic
\* file exists and parses, each once and in the order of the index; an index
\* id whose file is missing or corrupt is skipped.
C17_ListSkipsDamaged ==
  op = "getAllComics" =>
    /\ Len(ret.comics) = Cardinality(ReadableIds)
    /\ \A i \in 1..Len(ret.comics) :
         /\ ret.comics[i].id \in ReadableIds
         /\ ret.comics[i] = disk.comics[ret.comics[i].id]
    /\ \A id \in ReadableIds : \E i \in 1..Len(ret.comics) : ret.comics[i].id = id
    /\ \A i, j \in 1..Len(ret.comics) :
         i < j => KeyPosition(ret.comics[i].id) < KeyPosition(ret.comics[j].id)

\* of two comics of the index one has a corrupt file, and the other is listed
C17_Witness ==
  /\ op = "getAllComics"
  /\ Len(mem.libraryIndex.comics.keys) = 2
  /\ \E id \in DOMAIN disk.comics : disk.comics[id] = CorruptFile
  /\ Len(ret.comics) = 1

\* the ids a scan of the tree gives, and those with a comic file
KnownIds ==
  { ReadDirectoryResult(fsys).comics[i].id : i \in 1..ReadDirectoryResult(fsys).totalComics }
    \cup DOMAIN disk.comics \cup DOMAIN lastSaved

\* C7 as stated: getComic of an id returns the very record of the last
\* successful save of the id, now and after a restart, and null for an id
\* that was never saved.
C7_AsStated ==
  \A id \in KnownIds :
    IF id \in DOMAIN lastSaved
    THEN /\ getComic(St, id) = lastSaved[id]
         /\ getComic(loadData(St), id) = lastSaved[id]
    ELSE getComic(St, id) = NullComic

\* C7: getComic of an id returns what JSON makes of the record of the last
\* successful save of the id (a Date in lastRead comes back as its ISO string,
\* fields set to undefined are absent), now and after a restart, and null for
\* an id that was never saved.
C7_RoundTrip ==
  \A id \in KnownIds :
    IF id \in DOMAIN lastSaved
    THEN /\ getComic(St, id) = JsonOfComic(lastSaved[id])
         /\ getComic(loadData(St), id) = JsonOfComic(lastSaved[id])
    ELSE getComic(St, id) = NullComic

\* a saved comic is read back after its index entry was removed and the
\* application restarted, and a folder of the tree has never been saved
C7_Witness ==
  /\ op = "restart"
  /\ \E id \in DOMAIN lastSaved :
       /\ id \notin DOMAIN mem.libraryIndex.comics.at
       /\ getComic(St, id).lastRead.type = "string"
       /\ lastSaved[id].lastRead.type = "Date"

(***************************************************************************)
(* Properties of the cooldown of useAutoRefreshMetadata.                    *)
(***************************************************************************)

\* C19: any two executions of refreshMetadata that reload the library start
\* at least refreshCooldown milliseconds apart, calls made while an earlier
\* reload is still awaiting included
C19_AsStated ==
  \A i \in DOMAIN hook.reloads, j \in DOMAIN hook.reloads :
    i < j => hook.reloads[j] - hook.reloads[i] >= refreshCooldown

(***************************************************************************)
(* Properties of scans that overlap.                                        *)
(***************************************************************************)
BothCompleted ==
  /\ Len(refreshes.finished) = 2
  /\ \E k \in DOMAIN refreshes.calls : refreshes.calls[k].overlaps

EarlierFinished == refreshes.calls[refreshes.finished[1]]
LaterFinished == refreshes.calls[refreshes.finished[2]]

\* the comic file of id holds a comic of the call
HoldsValueOf(call, id) ==
  \E i \in DOMAIN call.comics :
    call.comics[i].id = id /\ getComic(St, id) = JsonOfComic(call.comics[i])

\* C20: once two overlapping refreshes have both completed, the comic files
\* and the index are those of the refresh that finished later: every comic
\* of that refresh is in its file, the index counts its comics, and no file
\* keeps a value of the refresh that finished earlier
C20_AsStated ==
  BothCompleted =>
    /\ \A i \in DOMAIN LaterFinished.comics :
         HoldsValueOf(LaterFinished, LaterFinished.comics[i].id)
    /\ disk.index.totalComics = Len(LaterFinished.comics)
    /\ \A id \in DOMAIN disk.comics :
         HoldsValueOf(EarlierFinished, id) => HoldsValueOf(LaterFinished, id)

(***************************************************************************)
(* Properties of the order of the writes of saveComic.                      *)
(***************************************************************************)

\* C21: saveComic writes the comic file before it touches the index: an edit
\* changes the index, in memory or in its file, only when the write of the
\* comic file succeeded and the file holds the comic; when that write fails
\* saveComic returns false and the index is unchanged in memory and on disk
C21_ItemBeforeIndex ==
  [][op' = "handleSave" =>
       /\ ret'.saveSuccess = args'.itemOk
       /\ (mem'.libraryIndex # mem.libraryIndex \/ disk'.index # disk.index) =>
            /\ args'.itemOk
            /\ args'.comicId \in DOMAIN disk'.comics
            /\ disk'.comics[args'.comicId] = JsonOfComic(FindComic(comicList', args'.comicId))
       /\ ~args'.itemOk =>
            mem'.libraryIndex = mem.libraryIndex /\ disk'.index = disk.index]_vars

\* an edit whose comic file could not be written, over an index that lists the comic
C21_Witness ==
  /\ op = "handleSave" /\ ~args.itemOk /\ ~ret.saveSuccess
  /\ Includes(mem.libraryIndex.comics.keys, args.comicId)

(***************************************************************************)
(* Properties of an edit during a scan.                                     *)
(***************************************************************************)

\* C22: an edit saved while a refresh is between reading the comic's record
\* and saving its merged record is not lost: once the refresh has completed,
\* the comic file holds the edited title, author, description and tags
C22_AsStated ==
  \A k \in DOMAIN refreshes.calls :
    refreshes.calls[k].pc = "done" =>
      \A id \in DOMAIN refreshes.calls[k].edited :
        SameUserFields(getComic(St, id), JsonOfComic(refreshes.calls[k].edited[id]))

(***************************************************************************)
(* Properties of the records of a renamed folder.                           *)
(***************************************************************************)

\* C23: after an edit that renamed the folder of a comic and saved its
\* record, the next refresh gives for the renamed folder a record with the
\* author, the description and the tags the edit saved; the tree has changed
\* since its last scan when the edit has renamed the folder
C23_AsStated ==
  [][(/\ op = "handleSave" /\ ret.rename = "done" /\ ret.saveSuccess
      /\ scanHistory = <<>>
      /\ op' = "handleRefresh") =>
       LET saved == JsonOfComic(lastSaved[args.comicId])
       IN \A i \in DOMAIN ret'.comics :
            ret'.comics[i].folderPath = saved.folderPath =>
              /\ ret'.comics[i].author = saved.author
              /\ ret'.comics[i].description = saved.description
              /\ ret'.comics[i].comicGenres = saved.comicGenres]_vars

(***************************************************************************)
(* Properties of the ids of a scan.                                         *)
(***************************************************************************)

\* C24: any two records of one scan result that describe distinct folders
\* have distinct ids
C24_AsStated ==
  op = "readDirectory" =>
    \A i \in DOMAIN ret.comics, j \in DOMAIN ret.comics :
      ret.comics[i].folderPath # ret.comics[j].folderPath
        => ret.comics[i].id # ret.comics[j].id

(***************************************************************************)
(* Properties of the start of the singleton.                                *)
(***************************************************************************)

\* C25: an operation of the store never runs with an unset dataPath, and
\* loadData never replaces a document in memory that an operation has
\* written before
C25_AsStated ==
  /\ [](op \in {"getComic", "setSettings"} => args.dataPath # <<>>)
  /\ [][op' = "loadData" => \A doc \in boot.written : mem'[doc] = mem[doc]]_vars

(***************************************************************************)
(* Properties of the settings updates.                                      *)
(***************************************************************************)
SettingsKeys == DOMAIN EmptySettings

InCatalog(genres, value) == \E category \in GenreCategories : Includes(genres[category], value)

CatalogValues(genres) ==
  UNION { { genres[category][k] : k \in 1..Len(genres[category]) } : category \in GenreCategories }

\* C27: no operation of the GenreManager (add, edit, delete) removes from
\* the catalog a value that a comic still has among its tags
C27_AsStated ==
  [][op' \in {"addGenre", "saveEdit", "deleteGenre"} =>
       \A value \in CatalogValues(gm.genres) :
         Holders(St, value) # {} => InCatalog(gm'.genres, value)]_vars

(***************************************************************************)
(* Properties of the count of the index.                                    *)
(***************************************************************************)

\* C28: in every state, totalComics of the index is the number of entries
\* of its comics map, in memory and in the index file
C28_AsStated ==
  /\ mem.libraryIndex.totalComics = Len(mem.libraryIndex.comics.keys)
  /\ disk.index.totalComics = Len(disk.index.comics.keys)

(***************************************************************************)
(* Properties of the page of the reader.                                    *)
(***************************************************************************)

HasDefaultUserFields(comic) ==
  /\ comic.author = Unknown
  /\ comic.description = Undefined
  /\ comic.genre = Undefined
  /\ comic.comicGenres = UndefinedGenres

\* C30: after clearAllData, getAllComics is empty, settings, genres and
\* reading progress are empty in memory and on disk, getComic gives null for
\* every id, and a refresh that follows gives records with default
\* user-editable fields
C30_AsStated ==
  /\ [](op = "clearAllData" =>
          /\ getAllComics(St) = <<>>
          /\ mem = EmptyMem
          /\ disk.index = EmptyIndex /\ disk.genres = EmptyGenres
          /\ disk.settings = EmptySettings /\ disk.readingProgress = EmptyMap
          /\ \A id \in DOMAIN lastSaved : IsNull(getComic(St, id)))
  /\ [][(op = "clearAllData" /\ op' = "handleRefresh") =>
          \A i \in DOMAIN ret'.comics : HasDefaultUserFields(ret'.comics[i])]_vars

====
